---- MODULE Spec2Model ----
(***************************************************************************)
(* Model of the MIDI pedal control plane of tylerferrin/librarian:         *)
(* the MidiManager (connection registry, outbound sends, preset recall),   *)
(* the per-device inbound listener, the pedal profiles' parameter <-> CC   *)
(* codecs, and the save-to-bank choreography of the command layer.         *)
(***************************************************************************)
EXTENDS Integers, Sequences, FiniteSets, TLC

(***************************************************************************)
(* Bounds of the model.                                                    *)
(***************************************************************************)

\* Number of iteration orders a std HashMap<u8,u8> is allowed to take in a
\* recall (the order of HashMap::iter() is unspecified; each order is a
\* rotation of the ascending key order, reversed for odd seeds).
NumSeeds == 2

\* Number of messages received while one Identity Request waits for replies.
MaxReplies == 2

\* The async command tasks that call into the shared manager: "t1" issues
\* the commands that are one manager call, "t2" the commands that span
\* several sends (recall_preset, save_preset_to_bank).
Threads == {"t1", "t2"}
CallThreads == {"t1"}
SequenceThreads == {"t2"}

\* Device names callers pass.  "PedalA" and "PedalB" are substrings of the
\* name of an existing MIDI output port; "Ghost" matches no port.
DeviceNames == {"PedalA", "PedalB", "Ghost"}
OutputPortNames == {"PedalA", "PedalB"}
\* "PedalB" has no matching input port (a send-only device).
InputPortNames == {"PedalA"}

\* The connect calls made: <<pedal type, device name, channel>>.
ConnectInputs ==
    { <<"PreampMk2", "PedalA", 1>>,
      <<"Microcosm", "PedalB", 16>>,
      <<"PreampMk2", "PedalA", 0>>,
      <<"Microcosm", "PedalB", 17>>,
      <<"Microcosm", "Ghost", 1>> }

PedalTypes == {"Microcosm", "PreampMk2"}

\* The connect calls and the families of the four-family specification.
FamilyConnectInputs ==
    { <<"PreampMk2", "PedalA", 1>>,
      <<"ChromaConsole", "PedalA", 2>>,
      <<"ChromaConsole", "PedalA", 0>>,
      <<"Microcosm", "PedalB", 16>>,
      <<"GenLossMkii", "PedalB", 3>> }

AllPedalTypes == {"Microcosm", "GenLossMkii", "ChromaConsole", "PreampMk2"}

(***************************************************************************)
(* Chase Bliss Preamp MK II profile.                                       *)
(***************************************************************************)

CC_VOLUME == 14
CC_TREBLE == 15
CC_MIDS == 16
CC_FREQUENCY == 17
CC_BASS == 18
CC_GAIN == 19
CC_JUMP == 22
CC_MIDS_POSITION == 23
CC_Q_RESONANCE == 24
CC_DIODE_CLIPPING == 25
CC_FUZZ_MODE == 26
CC_PRESET_SAVE == 27
CC_EXPRESSION == 100
CC_BYPASS == 102

Jump_to_cc_value(j) ==
    CASE j = "Off" -> 1
      [] j = "Zero" -> 2
      [] j = "Five" -> 3

Jump_from_cc_value(value) ==
    CASE value = 1 -> "Off"
      [] value = 2 -> "Zero"
      [] value = 3 -> "Five"
      [] OTHER -> "Off"

MidsPosition_to_cc_value(m) ==
    CASE m = "Off" -> 1
      [] m = "Pre" -> 2
      [] m = "Post" -> 3

MidsPosition_from_cc_value(value) ==
    CASE value = 1 -> "Off"
      [] value = 2 -> "Pre"
      [] value = 3 -> "Post"
      [] OTHER -> "Off"

QResonance_to_cc_value(q) ==
    CASE q = "Low" -> 1
      [] q = "Mid" -> 2
      [] q = "High" -> 3

QResonance_from_cc_value(value) ==
    CASE value = 1 -> "Low"
      [] value = 2 -> "Mid"
      [] value = 3 -> "High"
      [] OTHER -> "Mid"

DiodeClipping_to_cc_value(d) ==
    CASE d = "Off" -> 1
      [] d = "Silicon" -> 2
      [] d = "Germanium" -> 3

DiodeClipping_from_cc_value(value) ==
    CASE value = 1 -> "Off"
      [] value = 2 -> "Silicon"
      [] value = 3 -> "Germanium"
      [] OTHER -> "Off"

FuzzMode_to_cc_value(f) ==
    CASE f = "Off" -> 1
      [] f = "Open" -> 2
      [] f = "Gated" -> 3

FuzzMode_from_cc_value(value) ==
    CASE value = 1 -> "Off"
      [] value = 2 -> "Open"
      [] value = 3 -> "Gated"
      [] OTHER -> "Off"

PreampMk2State_default ==
    [ volume |-> 64, treble |-> 64, mids |-> 64, frequency |-> 64,
      bass |-> 64, gain |-> 64,
      jump |-> "Off", mids_position |-> "Post", q_resonance |-> "Mid",
      diode_clipping |-> "Off", fuzz_mode |-> "Off",
      expression |-> 0, bypass |-> FALSE ]

\* A recall map that also carries the expression and bypass entries.
PreampMk2State_to_cc_map_all(s) ==
    { <<CC_VOLUME, s.volume>>,
      <<CC_TREBLE, s.treble>>,
      <<CC_MIDS, s.mids>>,
      <<CC_FREQUENCY, s.frequency>>,
      <<CC_BASS, s.bass>>,
      <<CC_GAIN, s.gain>>,
      <<CC_JUMP, Jump_to_cc_value(s.jump)>>,
      <<CC_MIDS_POSITION, MidsPosition_to_cc_value(s.mids_position)>>,
      <<CC_Q_RESONANCE, QResonance_to_cc_value(s.q_resonance)>>,
      <<CC_DIODE_CLIPPING, DiodeClipping_to_cc_value(s.diode_clipping)>>,
      <<CC_FUZZ_MODE, FuzzMode_to_cc_value(s.fuzz_mode)>>,
      <<CC_EXPRESSION, s.expression>>,
      <<CC_BYPASS, IF s.bypass THEN 0 ELSE 127>> }

\* The recall map of a Preamp MK II state: a HashMap<u8,u8>, here the set of
\* its (CC number, value) entries.  CC 100 and CC 102 are not inserted.
PreampMk2State_to_cc_map(s) ==
    { <<CC_VOLUME, s.volume>>,
      <<CC_TREBLE, s.treble>>,
      <<CC_MIDS, s.mids>>,
      <<CC_FREQUENCY, s.frequency>>,
      <<CC_BASS, s.bass>>,
      <<CC_GAIN, s.gain>>,
      <<CC_JUMP, Jump_to_cc_value(s.jump)>>,
      <<CC_MIDS_POSITION, MidsPosition_to_cc_value(s.mids_position)>>,
      <<CC_Q_RESONANCE, QResonance_to_cc_value(s.q_resonance)>>,
      <<CC_DIODE_CLIPPING, DiodeClipping_to_cc_value(s.diode_clipping)>>,
      <<CC_FUZZ_MODE, FuzzMode_to_cc_value(s.fuzz_mode)>> }

PreampMk2State_update_from_cc(s, cc, value) ==
    CASE cc = CC_VOLUME -> [s EXCEPT !.volume = value]
      [] cc = CC_TREBLE -> [s EXCEPT !.treble = value]
      [] cc = CC_MIDS -> [s EXCEPT !.mids = value]
      [] cc = CC_FREQUENCY -> [s EXCEPT !.frequency = value]
      [] cc = CC_BASS -> [s EXCEPT !.bass = value]
      [] cc = CC_GAIN -> [s EXCEPT !.gain = value]
      [] cc = CC_JUMP -> [s EXCEPT !.jump = Jump_from_cc_value(value)]
      [] cc = CC_MIDS_POSITION ->
            [s EXCEPT !.mids_position = MidsPosition_from_cc_value(value)]
      [] cc = CC_Q_RESONANCE ->
            [s EXCEPT !.q_resonance = QResonance_from_cc_value(value)]
      [] cc = CC_DIODE_CLIPPING ->
            [s EXCEPT !.diode_clipping = DiodeClipping_from_cc_value(value)]
      [] cc = CC_FUZZ_MODE ->
            [s EXCEPT !.fuzz_mode = FuzzMode_from_cc_value(value)]
      [] cc = CC_EXPRESSION -> [s EXCEPT !.expression = value]
      [] cc = CC_BYPASS -> [s EXCEPT !.bypass = (value = 0)]
      [] OTHER -> s

\* A PreampMk2Parameter is a record [tag |-> variant, v |-> payload].
PreampMk2Parameter_cc_number(p) ==
    CASE p.tag = "Volume" -> CC_VOLUME
      [] p.tag = "Treble" -> CC_TREBLE
      [] p.tag = "Mids" -> CC_MIDS
      [] p.tag = "Frequency" -> CC_FREQUENCY
      [] p.tag = "Bass" -> CC_BASS
      [] p.tag = "Gain" -> CC_GAIN
      [] p.tag = "Jump" -> CC_JUMP
      [] p.tag = "MidsPosition" -> CC_MIDS_POSITION
      [] p.tag = "QResonance" -> CC_Q_RESONANCE
      [] p.tag = "DiodeClipping" -> CC_DIODE_CLIPPING
      [] p.tag = "FuzzMode" -> CC_FUZZ_MODE
      [] p.tag = "Expression" -> CC_EXPRESSION
      [] p.tag = "Bypass" -> CC_BYPASS

PreampMk2Parameter_cc_value(p) ==
    CASE p.tag \in {"Volume", "Treble", "Mids", "Frequency", "Bass", "Gain",
                    "Expression"} -> p.v
      [] p.tag = "Jump" -> Jump_to_cc_value(p.v)
      [] p.tag = "MidsPosition" -> MidsPosition_to_cc_value(p.v)
      [] p.tag = "QResonance" -> QResonance_to_cc_value(p.v)
      [] p.tag = "DiodeClipping" -> DiodeClipping_to_cc_value(p.v)
      [] p.tag = "FuzzMode" -> FuzzMode_to_cc_value(p.v)
      [] p.tag = "Bypass" -> IF p.v THEN 0 ELSE 127

PreampMk2_update_state(s, p) ==
    CASE p.tag = "Volume" -> [s EXCEPT !.volume = p.v]
      [] p.tag = "Treble" -> [s EXCEPT !.treble = p.v]
      [] p.tag = "Mids" -> [s EXCEPT !.mids = p.v]
      [] p.tag = "Frequency" -> [s EXCEPT !.frequency = p.v]
      [] p.tag = "Bass" -> [s EXCEPT !.bass = p.v]
      [] p.tag = "Gain" -> [s EXCEPT !.gain = p.v]
      [] p.tag = "Jump" -> [s EXCEPT !.jump = p.v]
      [] p.tag = "MidsPosition" -> [s EXCEPT !.mids_position = p.v]
      [] p.tag = "QResonance" -> [s EXCEPT !.q_resonance = p.v]
      [] p.tag = "DiodeClipping" -> [s EXCEPT !.diode_clipping = p.v]
      [] p.tag = "FuzzMode" -> [s EXCEPT !.fuzz_mode = p.v]
      [] p.tag = "Expression" -> [s EXCEPT !.expression = p.v]
      [] p.tag = "Bypass" -> [s EXCEPT !.bypass = p.v]

(***************************************************************************)
(* Hologram Microcosm profile.                                             *)
(***************************************************************************)

SubdivisionValue_to_cc_value(v) ==
    CASE v = "QuarterNote" -> 0
      [] v = "HalfNote" -> 1
      [] v = "Tap" -> 2
      [] v = "Double" -> 3
      [] v = "Quadruple" -> 4
      [] v = "Octuple" -> 5

WaveformShape_to_cc_value(v) ==
    CASE v = "Square" -> 16
      [] v = "Ramp" -> 48
      [] v = "Triangle" -> 80
      [] v = "Saw" -> 112

PlaybackDirection_to_cc_value(v) ==
    CASE v = "Forward" -> 0
      [] v = "Reverse" -> 127

LooperRouting_to_cc_value(v) ==
    CASE v = "PostFX" -> 0
      [] v = "PreFX" -> 127

MicrocosmState_default ==
    [ current_effect |-> "Mosaic", current_variation |-> "A",
      subdivision |-> "QuarterNote", time |-> 64, hold_sampler |-> FALSE,
      activity |-> 64, repeats |-> 64,
      shape |-> "Square", frequency |-> 64, depth |-> 64,
      cutoff |-> 127, resonance |-> 0,
      mix |-> 64, volume |-> 100, reverse_effect |-> FALSE, bypass |-> FALSE,
      space |-> 0, reverb_time |-> 0,
      loop_level |-> 100, looper_speed |-> 64,
      looper_speed_stepped |-> "QuarterNote", fade_time |-> 64,
      looper_enabled |-> FALSE, playback_direction |-> "Forward",
      routing |-> "PostFX", looper_only |-> FALSE, burst_mode |-> FALSE,
      quantized |-> FALSE ]

Bool127(b) == IF b THEN 127 ELSE 0

\* The recall map of a Microcosm state (MicrocosmState::to_cc_map).
MicrocosmState_to_cc_map(s) ==
    { <<5, SubdivisionValue_to_cc_value(s.subdivision)>>,
      <<10, s.time>>,
      <<48, Bool127(s.hold_sampler)>>,
      <<6, s.activity>>,
      <<11, s.repeats>>,
      <<7, WaveformShape_to_cc_value(s.shape)>>,
      <<14, s.frequency>>,
      <<19, s.depth>>,
      <<8, s.cutoff>>,
      <<15, s.resonance>>,
      <<9, s.mix>>,
      <<16, s.volume>>,
      <<47, Bool127(s.reverse_effect)>>,
      <<102, Bool127(s.bypass)>>,
      <<12, s.space>>,
      <<20, s.reverb_time>>,
      <<13, s.loop_level>>,
      <<17, s.looper_speed>>,
      <<18, SubdivisionValue_to_cc_value(s.looper_speed_stepped)>>,
      <<21, s.fade_time>>,
      <<22, Bool127(s.looper_enabled)>>,
      <<23, PlaybackDirection_to_cc_value(s.playback_direction)>>,
      <<24, LooperRouting_to_cc_value(s.routing)>>,
      <<25, Bool127(s.looper_only)>>,
      <<26, Bool127(s.burst_mode)>>,
      <<27, Bool127(s.quantized)>> }

\* A MicrocosmParameter is a record [tag |-> variant, v |-> payload]; the
\* trigger variants carry no payload and are modelled with v |-> 0.
MicrocosmParameter_cc_number(p) ==
    CASE p.tag = "Subdivision" -> 5
      [] p.tag = "Time" -> 10
      [] p.tag = "HoldSampler" -> 48
      [] p.tag = "TapTempo" -> 93
      [] p.tag = "Activity" -> 6
      [] p.tag = "Repeats" -> 11
      [] p.tag = "Shape" -> 7
      [] p.tag = "Frequency" -> 14
      [] p.tag = "Depth" -> 19
      [] p.tag = "Cutoff" -> 8
      [] p.tag = "Resonance" -> 15
      [] p.tag = "Mix" -> 9
      [] p.tag = "Volume" -> 16
      [] p.tag = "ReverseEffect" -> 47
      [] p.tag = "Bypass" -> 102
      [] p.tag = "Space" -> 12
      [] p.tag = "ReverbTime" -> 20
      [] p.tag = "LoopLevel" -> 13
      [] p.tag = "LooperSpeed" -> 17
      [] p.tag = "LooperSpeedStepped" -> 18
      [] p.tag = "FadeTime" -> 21
      [] p.tag = "LooperEnabled" -> 22
      [] p.tag = "PlaybackDirection" -> 23
      [] p.tag = "Routing" -> 24
      [] p.tag = "LooperOnly" -> 25
      [] p.tag = "BurstMode" -> 26
      [] p.tag = "Quantized" -> 27
      [] p.tag = "LooperRecord" -> 28
      [] p.tag = "LooperPlay" -> 29
      [] p.tag = "LooperOverdub" -> 30
      [] p.tag = "LooperStop" -> 31
      [] p.tag = "LooperErase" -> 34
      [] p.tag = "LooperUndo" -> 35
      [] p.tag = "PresetCopy" -> 45
      [] p.tag = "PresetSave" -> 46

MicrocosmParameter_cc_value(p) ==
    CASE p.tag \in {"Time", "Activity", "Repeats", "Frequency", "Depth",
                    "Cutoff", "Resonance", "Mix", "Volume", "Space",
                    "ReverbTime", "LoopLevel", "LooperSpeed", "FadeTime"}
            -> p.v
      [] p.tag \in {"Subdivision", "LooperSpeedStepped"}
            -> SubdivisionValue_to_cc_value(p.v)
      [] p.tag = "Shape" -> WaveformShape_to_cc_value(p.v)
      [] p.tag = "PlaybackDirection" -> PlaybackDirection_to_cc_value(p.v)
      [] p.tag = "Routing" -> LooperRouting_to_cc_value(p.v)
      [] p.tag \in {"HoldSampler", "Bypass", "ReverseEffect", "LooperEnabled",
                    "LooperOnly", "BurstMode", "Quantized"}
            -> IF p.v THEN 127 ELSE 0
      [] p.tag \in {"TapTempo", "LooperRecord", "LooperPlay", "LooperOverdub",
                    "LooperStop", "LooperErase", "LooperUndo", "PresetCopy",
                    "PresetSave"}
            -> 127

Microcosm_update_state(s, p) ==
    CASE p.tag = "Subdivision" -> [s EXCEPT !.subdivision = p.v]
      [] p.tag = "Time" -> [s EXCEPT !.time = p.v]
      [] p.tag = "HoldSampler" -> [s EXCEPT !.hold_sampler = p.v]
      [] p.tag = "Activity" -> [s EXCEPT !.activity = p.v]
      [] p.tag = "Repeats" -> [s EXCEPT !.repeats = p.v]
      [] p.tag = "Shape" -> [s EXCEPT !.shape = p.v]
      [] p.tag = "Frequency" -> [s EXCEPT !.frequency = p.v]
      [] p.tag = "Depth" -> [s EXCEPT !.depth = p.v]
      [] p.tag = "Cutoff" -> [s EXCEPT !.cutoff = p.v]
      [] p.tag = "Resonance" -> [s EXCEPT !.resonance = p.v]
      [] p.tag = "Mix" -> [s EXCEPT !.mix = p.v]
      [] p.tag = "Volume" -> [s EXCEPT !.volume = p.v]
      [] p.tag = "ReverseEffect" -> [s EXCEPT !.reverse_effect = p.v]
      [] p.tag = "Bypass" -> [s EXCEPT !.bypass = p.v]
      [] p.tag = "Space" -> [s EXCEPT !.space = p.v]
      [] p.tag = "ReverbTime" -> [s EXCEPT !.reverb_time = p.v]
      [] p.tag = "LoopLevel" -> [s EXCEPT !.loop_level = p.v]
      [] p.tag = "LooperSpeed" -> [s EXCEPT !.looper_speed = p.v]
      [] p.tag = "LooperSpeedStepped" ->
            [s EXCEPT !.looper_speed_stepped = p.v]
      [] p.tag = "FadeTime" -> [s EXCEPT !.fade_time = p.v]
      [] p.tag = "LooperEnabled" -> [s EXCEPT !.looper_enabled = p.v]
      [] p.tag = "PlaybackDirection" ->
            [s EXCEPT !.playback_direction = p.v]
      [] p.tag = "Routing" -> [s EXCEPT !.routing = p.v]
      [] p.tag = "LooperOnly" -> [s EXCEPT !.looper_only = p.v]
      [] p.tag = "BurstMode" -> [s EXCEPT !.burst_mode = p.v]
      [] p.tag = "Quantized" -> [s EXCEPT !.quantized = p.v]
      [] OTHER -> s

\* EffectType::from_program: Some(<<effect, variation>>) as a one-element
\* sequence, None as the empty sequence.
EffectVariation_from_offset(offset) ==
    CASE offset = 0 -> <<"A">>
      [] offset = 1 -> <<"B">>
      [] offset = 2 -> <<"C">>
      [] offset = 3 -> <<"D">>
      [] OTHER -> << >>

EffectType_from_program(program) ==
    LET q == program \div 4
        effect == CASE q = 0 -> <<"Arp">>
                    [] q = 1 -> <<"Interrupt">>
                    [] q = 2 -> <<"Blocks">>
                    [] q = 3 -> <<"Glide">>
                    [] q = 4 -> <<"Seq">>
                    [] q = 5 -> <<"Mosaic">>
                    [] q = 6 -> <<"Haze">>
                    [] q = 7 -> <<"Tunnel">>
                    [] q = 8 -> <<"Strum">>
                    [] q = 9 -> <<"Pattern">>
                    [] q = 10 -> <<"Warp">>
                    [] OTHER -> << >>
        variation == EffectVariation_from_offset(program % 4)
    IN  IF effect = << >> \/ variation = << >>
        THEN << >>
        ELSE << <<effect[1], variation[1]>> >>

Microcosm_set_current_preset(s, program) ==
    LET r == EffectType_from_program(program)
    IN  IF r # << >>
        THEN [s EXCEPT !.current_effect = r[1][1],
                       !.current_variation = r[1][2]]
        ELSE s

(***************************************************************************)
(* Hologram Chroma Console profile.                                        *)
(***************************************************************************)

CharacterModule_to_cc_value(m) ==
    CASE m = "Drive" -> 10
      [] m = "Sweeten" -> 32
      [] m = "Fuzz" -> 54
      [] m = "Howl" -> 76
      [] m = "Swell" -> 98
      [] m = "Off" -> 120

MovementModule_to_cc_value(m) ==
    CASE m = "Doubler" -> 10
      [] m = "Vibrato" -> 32
      [] m = "Phaser" -> 54
      [] m = "Tremolo" -> 76
      [] m = "Pitch" -> 98
      [] m = "Off" -> 120

DiffusionModule_to_cc_value(m) ==
    CASE m = "Cascade" -> 10
      [] m = "Reels" -> 32
      [] m = "Space" -> 54
      [] m = "Collage" -> 76
      [] m = "Reverse" -> 98
      [] m = "Off" -> 120

TextureModule_to_cc_value(m) ==
    CASE m = "Filter" -> 10
      [] m = "Squash" -> 32
      [] m = "Cassette" -> 54
      [] m = "Broken" -> 76
      [] m = "Interference" -> 98
      [] m = "Off" -> 120

GestureMode_to_cc_value(m) ==
    CASE m = "Play" -> 0
      [] m = "Record" -> 127

CaptureMode_to_cc_value(m) ==
    CASE m = "Stop" -> 21
      [] m = "Play" -> 65
      [] m = "Record" -> 108

CaptureRouting_to_cc_value(m) ==
    CASE m = "PostFx" -> 0
      [] m = "PreFx" -> 127

FilterMode_to_cc_value(m) ==
    CASE m = "Lpf" -> 21
      [] m = "Tilt" -> 65
      [] m = "Hpf" -> 108

CalibrationLevel_to_cc_value(m) ==
    CASE m = "Low" -> 15
      [] m = "Medium" -> 47
      [] m = "High" -> 79
      [] m = "VeryHigh" -> 111

ChromaConsoleState_default ==
    [tilt |-> 64,
     rate |-> 64,
     time |-> 64,
     mix |-> 64,
     amount_character |-> 64,
     amount_movement |-> 64,
     amount_diffusion |-> 64,
     amount_texture |-> 64,
     sensitivity |-> 64,
     drift_movement |-> 64,
     drift_diffusion |-> 64,
     output_level |-> 100,
     effect_vol_character |-> 100,
     effect_vol_movement |-> 100,
     effect_vol_diffusion |-> 100,
     effect_vol_texture |-> 100,
     character_module |-> "Off",
     movement_module |-> "Off",
     diffusion_module |-> "Off",
     texture_module |-> "Off",
     bypass_state |-> "Bypass",
     character_bypass |-> FALSE,
     movement_bypass |-> FALSE,
     diffusion_bypass |-> FALSE,
     texture_bypass |-> FALSE,
     gesture_mode |-> "Play",
     capture_mode |-> "Stop",
     capture_routing |-> "PostFx",
     filter_mode |-> "Lpf",
     calibration_level |-> "Medium"]

\* The value sent on CC 91 for a bypass state (inverted: 0 engages).
ChromaConsole_bypass_value(bypass_state) ==
    CASE bypass_state = "Bypass" -> 127
      [] bypass_state = "Engaged" -> 0
      [] bypass_state = "DualBypass" -> 48

\* A module bypass flag on the wire: true (bypassed) sends 0, false 127.
ChromaConsole_module_bypass_value(b) == IF b THEN 0 ELSE 127

ChromaConsoleState_to_cc_map(s) ==
    { <<64, s.tilt>>,
      <<66, s.rate>>,
      <<68, s.time>>,
      <<70, s.mix>>,
      <<65, s.amount_character>>,
      <<67, s.amount_movement>>,
      <<69, s.amount_diffusion>>,
      <<71, s.amount_texture>>,
      <<72, s.sensitivity>>,
      <<74, s.drift_movement>>,
      <<76, s.drift_diffusion>>,
      <<78, s.output_level>>,
      <<73, s.effect_vol_character>>,
      <<75, s.effect_vol_movement>>,
      <<77, s.effect_vol_diffusion>>,
      <<79, s.effect_vol_texture>>,
      <<16, CharacterModule_to_cc_value(s.character_module)>>,
      <<17, MovementModule_to_cc_value(s.movement_module)>>,
      <<18, DiffusionModule_to_cc_value(s.diffusion_module)>>,
      <<19, TextureModule_to_cc_value(s.texture_module)>>,
      <<91, ChromaConsole_bypass_value(s.bypass_state)>>,
      <<103, ChromaConsole_module_bypass_value(s.character_bypass)>>,
      <<104, ChromaConsole_module_bypass_value(s.movement_bypass)>>,
      <<105, ChromaConsole_module_bypass_value(s.diffusion_bypass)>>,
      <<106, ChromaConsole_module_bypass_value(s.texture_bypass)>>,
      <<80, GestureMode_to_cc_value(s.gesture_mode)>>,
      <<82, CaptureMode_to_cc_value(s.capture_mode)>>,
      <<83, CaptureRouting_to_cc_value(s.capture_routing)>>,
      <<84, FilterMode_to_cc_value(s.filter_mode)>>,
      <<94, CalibrationLevel_to_cc_value(s.calibration_level)>> }

(***************************************************************************)
(* Chase Bliss Generation Loss MKII profile.                               *)
(***************************************************************************)

TapeModel_to_cc_value(m) ==
    CASE m = "None" -> 0
      [] m = "CPR3300Gen1" -> 15
      [] m = "CPR3300Gen2" -> 24
      [] m = "CPR3300Gen3" -> 33
      [] m = "PortamaxRT" -> 43
      [] m = "PortamaxHT" -> 53
      [] m = "CAM8" -> 62
      [] m = "DictatronEX" -> 72
      [] m = "DictatronIN" -> 82
      [] m = "Fishy60" -> 91
      [] m = "MSWalker" -> 101
      [] m = "AMU2" -> 111
      [] m = "MPEX" -> 127

DryMode_to_cc_value(m) ==
    CASE m = "Dry1" -> 1
      [] m = "Dry2" -> 2
      [] m = "Dry3" -> 3

NoiseMode_to_cc_value(m) ==
    CASE m = "Noise1" -> 1
      [] m = "Noise2" -> 2
      [] m = "Noise3" -> 3

AuxMode_to_cc_value(m) ==
    CASE m = "Aux1" -> 1
      [] m = "Aux2" -> 2
      [] m = "Aux3" -> 3

SweepDirection_to_cc_value(m) ==
    CASE m = "Bottom" -> 0
      [] m = "Top" -> 127

Polarity_to_cc_value(m) ==
    CASE m = "Forward" -> 0
      [] m = "Reverse" -> 127

InputGain_to_cc_value(m) ==
    CASE m = "LineLevel" -> 1
      [] m = "InstrumentLevel" -> 2
      [] m = "HighGain" -> 3

DspBypassMode_to_cc_value(m) ==
    CASE m = "TrueBypass" -> 0
      [] m = "DspBypass" -> 127

GenLossMkiiState_default ==
    [wow |-> 64,
     volume |-> 100,
     model |-> "None",
     flutter |-> 64,
     saturate |-> 64,
     failure |-> 0,
     ramp_speed |-> 64,
     aux_mode |-> "Aux1",
     dry_mode |-> "Dry1",
     noise_mode |-> "Noise1",
     bypass |-> FALSE,
     aux_switch |-> FALSE,
     alt_mode |-> FALSE,
     left_switch |-> FALSE,
     center_switch |-> FALSE,
     right_switch |-> FALSE,
     dip_wow |-> FALSE,
     dip_flutter |-> FALSE,
     dip_sat_gen |-> FALSE,
     dip_failure_hp |-> FALSE,
     dip_model_lp |-> FALSE,
     dip_bounce |-> FALSE,
     dip_random |-> FALSE,
     dip_sweep |-> "Bottom",
     dip_polarity |-> "Forward",
     dip_classic |-> FALSE,
     dip_miso |-> FALSE,
     dip_spread |-> FALSE,
     dip_dry_type |-> FALSE,
     dip_drop_byp |-> FALSE,
     dip_snag_byp |-> FALSE,
     dip_hum_byp |-> FALSE,
     expression |-> 0,
     aux_onset_time |-> 64,
     hiss_level |-> 32,
     mechanical_noise |-> 32,
     crinkle_pop |-> 32,
     input_gain |-> "InstrumentLevel",
     dsp_bypass |-> "TrueBypass",
     ramp_bounce |-> FALSE]

GenLossMkiiState_to_cc_map(s) ==
    { <<14, s.wow>>,
      <<15, s.volume>>,
      <<16, TapeModel_to_cc_value(s.model)>>,
      <<17, s.flutter>>,
      <<18, s.saturate>>,
      <<19, s.failure>>,
      <<20, s.ramp_speed>>,
      <<21, AuxMode_to_cc_value(s.aux_mode)>>,
      <<22, DryMode_to_cc_value(s.dry_mode)>>,
      <<23, NoiseMode_to_cc_value(s.noise_mode)>>,
      <<102, Bool127(s.bypass)>>,
      <<103, Bool127(s.aux_switch)>>,
      <<104, Bool127(s.alt_mode)>>,
      <<105, Bool127(s.left_switch)>>,
      <<106, Bool127(s.center_switch)>>,
      <<107, Bool127(s.right_switch)>>,
      <<61, Bool127(s.dip_wow)>>,
      <<62, Bool127(s.dip_flutter)>>,
      <<63, Bool127(s.dip_sat_gen)>>,
      <<64, Bool127(s.dip_failure_hp)>>,
      <<65, Bool127(s.dip_model_lp)>>,
      <<66, Bool127(s.dip_bounce)>>,
      <<67, Bool127(s.dip_random)>>,
      <<68, SweepDirection_to_cc_value(s.dip_sweep)>>,
      <<71, Polarity_to_cc_value(s.dip_polarity)>>,
      <<72, Bool127(s.dip_classic)>>,
      <<73, Bool127(s.dip_miso)>>,
      <<74, Bool127(s.dip_spread)>>,
      <<75, Bool127(s.dip_dry_type)>>,
      <<76, Bool127(s.dip_drop_byp)>>,
      <<77, Bool127(s.dip_snag_byp)>>,
      <<78, Bool127(s.dip_hum_byp)>>,
      <<100, s.expression>>,
      <<24, s.aux_onset_time>>,
      <<27, s.hiss_level>>,
      <<28, s.mechanical_noise>>,
      <<29, s.crinkle_pop>>,
      <<32, InputGain_to_cc_value(s.input_gain)>>,
      <<26, DspBypassMode_to_cc_value(s.dsp_bypass)>>,
      <<52, Bool127(s.ramp_bounce)>> }

(***************************************************************************)
(* Decoders: from_cc_value of the profiles' enumerations.  A decoder that  *)
(* returns MidiResult<Self> yields InvalidValue for a byte it rejects.     *)
(***************************************************************************)

\* Err(MidiError::InvalidValue { expected, actual })
InvalidValue == "Err(InvalidValue)"

\* Microcosm
SubdivisionValue_from_cc_value(value) ==
    CASE value = 0 -> "QuarterNote"
      [] value = 1 -> "HalfNote"
      [] value = 2 -> "Tap"
      [] value = 3 -> "Double"
      [] value = 4 -> "Quadruple"
      [] value = 5 -> "Octuple"
      [] OTHER -> InvalidValue

WaveformShape_from_cc_value(value) ==
    CASE value \in 0..31 -> "Square"
      [] value \in 32..63 -> "Ramp"
      [] value \in 64..95 -> "Triangle"
      [] OTHER -> "Saw"

PlaybackDirection_from_cc_value(value) == IF value < 64 THEN "Forward" ELSE "Reverse"

LooperRouting_from_cc_value(value) == IF value < 64 THEN "PostFX" ELSE "PreFX"

\* Chroma Console
CharacterModule_from_cc_value(value) ==
    CASE value \in 0..21 -> "Drive"
      [] value \in 22..43 -> "Sweeten"
      [] value \in 44..65 -> "Fuzz"
      [] value \in 66..87 -> "Howl"
      [] value \in 88..109 -> "Swell"
      [] OTHER -> "Off"

MovementModule_from_cc_value(value) ==
    CASE value \in 0..21 -> "Doubler"
      [] value \in 22..43 -> "Vibrato"
      [] value \in 44..65 -> "Phaser"
      [] value \in 66..87 -> "Tremolo"
      [] value \in 88..109 -> "Pitch"
      [] OTHER -> "Off"

DiffusionModule_from_cc_value(value) ==
    CASE value \in 0..21 -> "Cascade"
      [] value \in 22..43 -> "Reels"
      [] value \in 44..65 -> "Space"
      [] value \in 66..87 -> "Collage"
      [] value \in 88..109 -> "Reverse"
      [] OTHER -> "Off"

TextureModule_from_cc_value(value) ==
    CASE value \in 0..21 -> "Filter"
      [] value \in 22..43 -> "Squash"
      [] value \in 44..65 -> "Cassette"
      [] value \in 66..87 -> "Broken"
      [] value \in 88..109 -> "Interference"
      [] OTHER -> "Off"

GestureMode_from_cc_value(value) == IF value < 64 THEN "Play" ELSE "Record"

CaptureMode_from_cc_value(value) ==
    CASE value \in 0..43 -> "Stop"
      [] value \in 44..87 -> "Play"
      [] OTHER -> "Record"

CaptureRouting_from_cc_value(value) == IF value < 64 THEN "PostFx" ELSE "PreFx"

FilterMode_from_cc_value(value) ==
    CASE value \in 0..43 -> "Lpf"
      [] value \in 44..87 -> "Tilt"
      [] OTHER -> "Hpf"

CalibrationLevel_from_cc_value(value) ==
    CASE value \in 0..31 -> "Low"
      [] value \in 32..63 -> "Medium"
      [] value \in 64..95 -> "High"
      [] OTHER -> "VeryHigh"

\* The CC_STANDARD_BYPASS (CC 91) arm of ChromaConsoleState::update_from_cc.
\* The decoding with the usual, not inverted, logic: high values engage.
ChromaConsole_bypass_from_cc_direct(value) ==
    IF value < 64 THEN "Bypass" ELSE "Engaged"

ChromaConsole_bypass_from_cc(value) ==
    IF value < 64 THEN "Engaged" ELSE "Bypass"

\* The CC_DUAL_BYPASS (CC 92) arm of ChromaConsoleState::update_from_cc.
ChromaConsole_dual_bypass_from_cc(value) ==
    CASE value \in 0..31 -> "Engaged"
      [] value \in 32..63 -> "DualBypass"
      [] OTHER -> "Bypass"

\* The module bypass arms of ChromaConsoleState::update_from_cc.
ChromaConsole_module_bypass_from_cc(value) == value < 64

\* Generation Loss MKII
TapeModel_from_cc_value(value) ==
    CASE value \in 0..7 -> "None"
      [] value \in 8..19 -> "CPR3300Gen1"
      [] value \in 20..28 -> "CPR3300Gen2"
      [] value \in 29..38 -> "CPR3300Gen3"
      [] value \in 39..48 -> "PortamaxRT"
      [] value \in 49..57 -> "PortamaxHT"
      [] value \in 58..67 -> "CAM8"
      [] value \in 68..77 -> "DictatronEX"
      [] value \in 78..86 -> "DictatronIN"
      [] value \in 87..96 -> "Fishy60"
      [] value \in 97..106 -> "MSWalker"
      [] value \in 107..119 -> "AMU2"
      [] OTHER -> "MPEX"

DryMode_from_cc_value(value) ==
    CASE value = 1 -> "Dry1"
      [] value = 2 -> "Dry2"
      [] value = 3 -> "Dry3"
      [] OTHER -> InvalidValue

NoiseMode_from_cc_value(value) ==
    CASE value = 1 -> "Noise1"
      [] value = 2 -> "Noise2"
      [] value = 3 -> "Noise3"
      [] OTHER -> InvalidValue

AuxMode_from_cc_value(value) ==
    CASE value = 1 -> "Aux1"
      [] value = 2 -> "Aux2"
      [] value = 3 -> "Aux3"
      [] OTHER -> InvalidValue

SweepDirection_from_cc_value(value) == IF value < 64 THEN "Bottom" ELSE "Top"

Polarity_from_cc_value(value) == IF value < 64 THEN "Forward" ELSE "Reverse"

InputGain_from_cc_value(value) ==
    CASE value = 1 -> "LineLevel"
      [] value = 2 -> "InstrumentLevel"
      [] value = 3 -> "HighGain"
      [] OTHER -> InvalidValue

DspBypassMode_from_cc_value(value) == IF value < 64 THEN "TrueBypass" ELSE "DspBypass"

\* Chase Bliss CXM 1978
Cxm1978Jump_to_cc_value(v) ==
    CASE v = "Off" -> 1
      [] v = "Zero" -> 2
      [] v = "Five" -> 3

Cxm1978Jump_from_cc_value(value) ==
    CASE value = 2 -> "Zero"
      [] value = 3 -> "Five"
      [] OTHER -> "Off"

Cxm1978ReverbType_to_cc_value(v) ==
    CASE v = "Room" -> 1
      [] v = "Plate" -> 2
      [] v = "Hall" -> 3

Cxm1978ReverbType_from_cc_value(value) ==
    CASE value = 2 -> "Plate"
      [] value = 3 -> "Hall"
      [] OTHER -> "Room"

Cxm1978Diffusion_to_cc_value(v) ==
    CASE v = "Low" -> 1
      [] v = "Med" -> 2
      [] v = "High" -> 3

Cxm1978Diffusion_from_cc_value(value) ==
    CASE value = 1 -> "Low"
      [] value = 3 -> "High"
      [] OTHER -> "Med"

Cxm1978TankMod_to_cc_value(v) ==
    CASE v = "Low" -> 1
      [] v = "Med" -> 2
      [] v = "High" -> 3

Cxm1978TankMod_from_cc_value(value) ==
    CASE value = 1 -> "Low"
      [] value = 3 -> "High"
      [] OTHER -> "Med"

Cxm1978Clock_to_cc_value(v) ==
    CASE v = "HiFi" -> 1
      [] v = "Standard" -> 2
      [] v = "LoFi" -> 3

Cxm1978Clock_from_cc_value(value) ==
    CASE value = 1 -> "HiFi"
      [] value = 3 -> "LoFi"
      [] OTHER -> "Standard"

(***************************************************************************)
(* <Family>Parameter::cc_number of the profiles whose parameters the       *)
(* manager model does not send, and the parameter kinds of every profile.  *)
(***************************************************************************)

\* Every Chroma Console parameter on the standard bypass CC.
ChromaConsoleParameter_cc_number_shared(p) == 91

ChromaConsoleParameter_cc_number(p) ==
    CASE p.tag = "Tilt" -> 64
      [] p.tag = "Rate" -> 66
      [] p.tag = "Time" -> 68
      [] p.tag = "Mix" -> 70
      [] p.tag = "AmountCharacter" -> 65
      [] p.tag = "AmountMovement" -> 67
      [] p.tag = "AmountDiffusion" -> 69
      [] p.tag = "AmountTexture" -> 71
      [] p.tag = "Sensitivity" -> 72
      [] p.tag = "DriftMovement" -> 74
      [] p.tag = "DriftDiffusion" -> 76
      [] p.tag = "OutputLevel" -> 78
      [] p.tag = "EffectVolCharacter" -> 73
      [] p.tag = "EffectVolMovement" -> 75
      [] p.tag = "EffectVolDiffusion" -> 77
      [] p.tag = "EffectVolTexture" -> 79
      [] p.tag = "CharacterModule" -> 16
      [] p.tag = "MovementModule" -> 17
      [] p.tag = "DiffusionModule" -> 18
      [] p.tag = "TextureModule" -> 19
      [] p.tag = "BypassState" -> 91
      [] p.tag = "CharacterBypass" -> 103
      [] p.tag = "MovementBypass" -> 104
      [] p.tag = "DiffusionBypass" -> 105
      [] p.tag = "TextureBypass" -> 106
      [] p.tag = "GestureMode" -> 80
      [] p.tag = "GestureStop" -> 81
      [] p.tag = "CaptureMode" -> 82
      [] p.tag = "CaptureRouting" -> 83
      [] p.tag = "TapTempo" -> 93
      [] p.tag = "FilterMode" -> 84
      [] p.tag = "CalibrationLevel" -> 94
      [] p.tag = "CalibrationEnter" -> 95

GenLossMkiiParameter_cc_number(p) ==
    CASE p.tag = "Wow" -> 14
      [] p.tag = "Volume" -> 15
      [] p.tag = "Model" -> 16
      [] p.tag = "Flutter" -> 17
      [] p.tag = "Saturate" -> 18
      [] p.tag = "Failure" -> 19
      [] p.tag = "RampSpeed" -> 20
      [] p.tag = "AuxMode" -> 21
      [] p.tag = "DryMode" -> 22
      [] p.tag = "NoiseMode" -> 23
      [] p.tag = "Bypass" -> 102
      [] p.tag = "AuxSwitch" -> 103
      [] p.tag = "AltMode" -> 104
      [] p.tag = "LeftSwitch" -> 105
      [] p.tag = "CenterSwitch" -> 106
      [] p.tag = "RightSwitch" -> 107
      [] p.tag = "DipWow" -> 61
      [] p.tag = "DipFlutter" -> 62
      [] p.tag = "DipSatGen" -> 63
      [] p.tag = "DipFailureHp" -> 64
      [] p.tag = "DipModelLp" -> 65
      [] p.tag = "DipBounce" -> 66
      [] p.tag = "DipRandom" -> 67
      [] p.tag = "DipSweep" -> 68
      [] p.tag = "DipPolarity" -> 71
      [] p.tag = "DipClassic" -> 72
      [] p.tag = "DipMiso" -> 73
      [] p.tag = "DipSpread" -> 74
      [] p.tag = "DipDryType" -> 75
      [] p.tag = "DipDropByp" -> 76
      [] p.tag = "DipSnagByp" -> 77
      [] p.tag = "DipHumByp" -> 78
      [] p.tag = "Expression" -> 100
      [] p.tag = "AuxOnsetTime" -> 24
      [] p.tag = "HissLevel" -> 27
      [] p.tag = "MechanicalNoise" -> 28
      [] p.tag = "CrinklePop" -> 29
      [] p.tag = "InputGain" -> 32
      [] p.tag = "DspBypass" -> 26
      [] p.tag = "PresetSave" -> 111
      [] p.tag = "RampBounce" -> 52

Cxm1978Parameter_cc_number(p) ==
    CASE p.tag = "Bass" -> 14
      [] p.tag = "Mids" -> 15
      [] p.tag = "Cross" -> 16
      [] p.tag = "Treble" -> 17
      [] p.tag = "Mix" -> 18
      [] p.tag = "PreDly" -> 19
      [] p.tag = "Jump" -> 22
      [] p.tag = "ReverbType" -> 23
      [] p.tag = "Diffusion" -> 24
      [] p.tag = "TankMod" -> 25
      [] p.tag = "Clock" -> 26
      [] p.tag = "Expression" -> 100
      [] p.tag = "Bypass" -> 102

\* The variants of each profile's parameter enumeration.
ParameterTags ==
    "Microcosm" :>
            {"Subdivision", "Time", "HoldSampler", "TapTempo", "Activity",
              "Repeats", "Shape", "Frequency", "Depth", "Cutoff",
              "Resonance", "Mix", "Volume", "ReverseEffect", "Bypass",
              "Space", "ReverbTime", "LoopLevel", "LooperSpeed",
              "LooperSpeedStepped", "FadeTime", "LooperEnabled",
              "PlaybackDirection", "Routing", "LooperOnly", "BurstMode",
              "Quantized", "LooperRecord", "LooperPlay", "LooperOverdub",
              "LooperStop", "LooperErase", "LooperUndo", "PresetCopy",
              "PresetSave" }
    @@ "PreampMk2" :>
            {"Volume", "Treble", "Mids", "Frequency", "Bass", "Gain",
              "Jump", "MidsPosition", "QResonance", "DiodeClipping",
              "FuzzMode", "Expression", "Bypass" }
    @@ "ChromaConsole" :>
            {"Tilt", "Rate", "Time", "Mix", "AmountCharacter",
              "AmountMovement", "AmountDiffusion", "AmountTexture",
              "Sensitivity", "DriftMovement", "DriftDiffusion",
              "OutputLevel", "EffectVolCharacter", "EffectVolMovement",
              "EffectVolDiffusion", "EffectVolTexture", "CharacterModule",
              "MovementModule", "DiffusionModule", "TextureModule",
              "BypassState", "CharacterBypass", "MovementBypass",
              "DiffusionBypass", "TextureBypass", "GestureMode",
              "GestureStop", "CaptureMode", "CaptureRouting", "TapTempo",
              "FilterMode", "CalibrationLevel", "CalibrationEnter" }
    @@ "GenLossMkii" :>
            {"Wow", "Volume", "Model", "Flutter", "Saturate", "Failure",
              "RampSpeed", "AuxMode", "DryMode", "NoiseMode", "Bypass",
              "AuxSwitch", "AltMode", "LeftSwitch", "CenterSwitch",
              "RightSwitch", "DipWow", "DipFlutter", "DipSatGen",
              "DipFailureHp", "DipModelLp", "DipBounce", "DipRandom",
              "DipSweep", "DipPolarity", "DipClassic", "DipMiso",
              "DipSpread", "DipDryType", "DipDropByp", "DipSnagByp",
              "DipHumByp", "Expression", "AuxOnsetTime", "HissLevel",
              "MechanicalNoise", "CrinklePop", "InputGain", "DspBypass",
              "PresetSave", "RampBounce" }
    @@ "Cxm1978" :>
            {"Bass", "Mids", "Cross", "Treble", "Mix", "PreDly", "Jump",
              "ReverbType", "Diffusion", "TankMod", "Clock", "Expression",
              "Bypass" }

(***************************************************************************)
(* The enumerations of the profiles and their byte codecs, by type path.   *)
(***************************************************************************)

\* The variants of each enumeration.
EnumValues ==
    ("microcosm::SubdivisionValue" :>
          {"QuarterNote", "HalfNote", "Tap", "Double", "Quadruple",
           "Octuple"})
    @@ ("microcosm::WaveformShape" :> {"Square", "Ramp", "Triangle", "Saw"})
    @@ ("microcosm::PlaybackDirection" :> {"Forward", "Reverse"})
    @@ ("microcosm::LooperRouting" :> {"PostFX", "PreFX"})
    @@ ("chroma_console::CharacterModule" :>
          {"Drive", "Sweeten", "Fuzz", "Howl", "Swell", "Off"})
    @@ ("chroma_console::MovementModule" :>
          {"Doubler", "Vibrato", "Phaser", "Tremolo", "Pitch", "Off"})
    @@ ("chroma_console::DiffusionModule" :>
          {"Cascade", "Reels", "Space", "Collage", "Reverse", "Off"})
    @@ ("chroma_console::TextureModule" :>
          {"Filter", "Squash", "Cassette", "Broken", "Interference", "Off"})
    @@ ("chroma_console::GestureMode" :> {"Play", "Record"})
    @@ ("chroma_console::CaptureMode" :> {"Stop", "Play", "Record"})
    @@ ("chroma_console::CaptureRouting" :> {"PostFx", "PreFx"})
    @@ ("chroma_console::FilterMode" :> {"Lpf", "Tilt", "Hpf"})
    @@ ("chroma_console::CalibrationLevel" :>
          {"Low", "Medium", "High", "VeryHigh"})
    @@ ("chroma_console::BypassState" :> {"Bypass", "Engaged", "DualBypass"})
    @@ ("gen_loss_mkii::TapeModel" :>
          {"None", "CPR3300Gen1", "CPR3300Gen2", "CPR3300Gen3", "PortamaxRT",
           "PortamaxHT", "CAM8", "DictatronEX", "DictatronIN", "Fishy60",
           "MSWalker", "AMU2", "MPEX"})
    @@ ("gen_loss_mkii::DryMode" :> {"Dry1", "Dry2", "Dry3"})
    @@ ("gen_loss_mkii::NoiseMode" :> {"Noise1", "Noise2", "Noise3"})
    @@ ("gen_loss_mkii::AuxMode" :> {"Aux1", "Aux2", "Aux3"})
    @@ ("gen_loss_mkii::SweepDirection" :> {"Bottom", "Top"})
    @@ ("gen_loss_mkii::Polarity" :> {"Forward", "Reverse"})
    @@ ("gen_loss_mkii::InputGain" :>
          {"LineLevel", "InstrumentLevel", "HighGain"})
    @@ ("gen_loss_mkii::DspBypassMode" :> {"TrueBypass", "DspBypass"})
    @@ ("preamp_mk2::Jump" :> {"Off", "Zero", "Five"})
    @@ ("preamp_mk2::MidsPosition" :> {"Off", "Pre", "Post"})
    @@ ("preamp_mk2::QResonance" :> {"Low", "Mid", "High"})
    @@ ("preamp_mk2::DiodeClipping" :> {"Off", "Silicon", "Germanium"})
    @@ ("preamp_mk2::FuzzMode" :> {"Off", "Open", "Gated"})
    @@ ("cxm1978::Jump" :> {"Off", "Zero", "Five"})
    @@ ("cxm1978::ReverbType" :> {"Room", "Plate", "Hall"})
    @@ ("cxm1978::Diffusion" :> {"Low", "Med", "High"})
    @@ ("cxm1978::TankMod" :> {"Low", "Med", "High"})
    @@ ("cxm1978::Clock" :> {"HiFi", "Standard", "LoFi"})

Enumerations == DOMAIN EnumValues

\* <Enumeration>::to_cc_value; for the Chroma Console bypass state, the byte
\* its parameter and its recall entry carry on CC 91.
to_cc_value(enum, v) ==
    CASE enum = "microcosm::SubdivisionValue" ->
            SubdivisionValue_to_cc_value(v)
      [] enum = "microcosm::WaveformShape" ->
            WaveformShape_to_cc_value(v)
      [] enum = "microcosm::PlaybackDirection" ->
            PlaybackDirection_to_cc_value(v)
      [] enum = "microcosm::LooperRouting" ->
            LooperRouting_to_cc_value(v)
      [] enum = "chroma_console::CharacterModule" ->
            CharacterModule_to_cc_value(v)
      [] enum = "chroma_console::MovementModule" ->
            MovementModule_to_cc_value(v)
      [] enum = "chroma_console::DiffusionModule" ->
            DiffusionModule_to_cc_value(v)
      [] enum = "chroma_console::TextureModule" ->
            TextureModule_to_cc_value(v)
      [] enum = "chroma_console::GestureMode" ->
            GestureMode_to_cc_value(v)
      [] enum = "chroma_console::CaptureMode" ->
            CaptureMode_to_cc_value(v)
      [] enum = "chroma_console::CaptureRouting" ->
            CaptureRouting_to_cc_value(v)
      [] enum = "chroma_console::FilterMode" ->
            FilterMode_to_cc_value(v)
      [] enum = "chroma_console::CalibrationLevel" ->
            CalibrationLevel_to_cc_value(v)
      [] enum = "chroma_console::BypassState" ->
            ChromaConsole_bypass_value(v)
      [] enum = "gen_loss_mkii::TapeModel" ->
            TapeModel_to_cc_value(v)
      [] enum = "gen_loss_mkii::DryMode" ->
            DryMode_to_cc_value(v)
      [] enum = "gen_loss_mkii::NoiseMode" ->
            NoiseMode_to_cc_value(v)
      [] enum = "gen_loss_mkii::AuxMode" ->
            AuxMode_to_cc_value(v)
      [] enum = "gen_loss_mkii::SweepDirection" ->
            SweepDirection_to_cc_value(v)
      [] enum = "gen_loss_mkii::Polarity" ->
            Polarity_to_cc_value(v)
      [] enum = "gen_loss_mkii::InputGain" ->
            InputGain_to_cc_value(v)
      [] enum = "gen_loss_mkii::DspBypassMode" ->
            DspBypassMode_to_cc_value(v)
      [] enum = "preamp_mk2::Jump" ->
            Jump_to_cc_value(v)
      [] enum = "preamp_mk2::MidsPosition" ->
            MidsPosition_to_cc_value(v)
      [] enum = "preamp_mk2::QResonance" ->
            QResonance_to_cc_value(v)
      [] enum = "preamp_mk2::DiodeClipping" ->
            DiodeClipping_to_cc_value(v)
      [] enum = "preamp_mk2::FuzzMode" ->
            FuzzMode_to_cc_value(v)
      [] enum = "cxm1978::Jump" ->
            Cxm1978Jump_to_cc_value(v)
      [] enum = "cxm1978::ReverbType" ->
            Cxm1978ReverbType_to_cc_value(v)
      [] enum = "cxm1978::Diffusion" ->
            Cxm1978Diffusion_to_cc_value(v)
      [] enum = "cxm1978::TankMod" ->
            Cxm1978TankMod_to_cc_value(v)
      [] enum = "cxm1978::Clock" ->
            Cxm1978Clock_to_cc_value(v)

\* <Enumeration>::from_cc_value; for the Chroma Console bypass state, the
\* CC 91 arm of update_from_cc.
from_cc_value(enum, value) ==
    CASE enum = "microcosm::SubdivisionValue" ->
            SubdivisionValue_from_cc_value(value)
      [] enum = "microcosm::WaveformShape" ->
            WaveformShape_from_cc_value(value)
      [] enum = "microcosm::PlaybackDirection" ->
            PlaybackDirection_from_cc_value(value)
      [] enum = "microcosm::LooperRouting" ->
            LooperRouting_from_cc_value(value)
      [] enum = "chroma_console::CharacterModule" ->
            CharacterModule_from_cc_value(value)
      [] enum = "chroma_console::MovementModule" ->
            MovementModule_from_cc_value(value)
      [] enum = "chroma_console::DiffusionModule" ->
            DiffusionModule_from_cc_value(value)
      [] enum = "chroma_console::TextureModule" ->
            TextureModule_from_cc_value(value)
      [] enum = "chroma_console::GestureMode" ->
            GestureMode_from_cc_value(value)
      [] enum = "chroma_console::CaptureMode" ->
            CaptureMode_from_cc_value(value)
      [] enum = "chroma_console::CaptureRouting" ->
            CaptureRouting_from_cc_value(value)
      [] enum = "chroma_console::FilterMode" ->
            FilterMode_from_cc_value(value)
      [] enum = "chroma_console::CalibrationLevel" ->
            CalibrationLevel_from_cc_value(value)
      [] enum = "chroma_console::BypassState" ->
            ChromaConsole_bypass_from_cc(value)
      [] enum = "gen_loss_mkii::TapeModel" ->
            TapeModel_from_cc_value(value)
      [] enum = "gen_loss_mkii::DryMode" ->
            DryMode_from_cc_value(value)
      [] enum = "gen_loss_mkii::NoiseMode" ->
            NoiseMode_from_cc_value(value)
      [] enum = "gen_loss_mkii::AuxMode" ->
            AuxMode_from_cc_value(value)
      [] enum = "gen_loss_mkii::SweepDirection" ->
            SweepDirection_from_cc_value(value)
      [] enum = "gen_loss_mkii::Polarity" ->
            Polarity_from_cc_value(value)
      [] enum = "gen_loss_mkii::InputGain" ->
            InputGain_from_cc_value(value)
      [] enum = "gen_loss_mkii::DspBypassMode" ->
            DspBypassMode_from_cc_value(value)
      [] enum = "preamp_mk2::Jump" ->
            Jump_from_cc_value(value)
      [] enum = "preamp_mk2::MidsPosition" ->
            MidsPosition_from_cc_value(value)
      [] enum = "preamp_mk2::QResonance" ->
            QResonance_from_cc_value(value)
      [] enum = "preamp_mk2::DiodeClipping" ->
            DiodeClipping_from_cc_value(value)
      [] enum = "preamp_mk2::FuzzMode" ->
            FuzzMode_from_cc_value(value)
      [] enum = "cxm1978::Jump" ->
            Cxm1978Jump_from_cc_value(value)
      [] enum = "cxm1978::ReverbType" ->
            Cxm1978ReverbType_from_cc_value(value)
      [] enum = "cxm1978::Diffusion" ->
            Cxm1978Diffusion_from_cc_value(value)
      [] enum = "cxm1978::TankMod" ->
            Cxm1978TankMod_from_cc_value(value)
      [] enum = "cxm1978::Clock" ->
            Cxm1978Clock_from_cc_value(value)

\* The data bytes of a Control Change.
CCValues == 0..127

(***************************************************************************)
(* Profile dispatch: the DeviceConnection variants.                        *)
(***************************************************************************)

\* A connection created with a state that is not the profile's default.
DefaultState_modified(pedal_type) ==
    CASE pedal_type = "Microcosm" -> [MicrocosmState_default EXCEPT !.mix = 127]
      [] pedal_type = "PreampMk2" -> [PreampMk2State_default EXCEPT !.gain = 127]
      [] pedal_type = "ChromaConsole" ->
            [ChromaConsoleState_default EXCEPT !.mix = 127]
      [] pedal_type = "GenLossMkii" ->
            [GenLossMkiiState_default EXCEPT !.wow = 127]

\* <Family>::new(midi_channel).state
DefaultState(pedal_type) ==
    CASE pedal_type = "Microcosm" -> MicrocosmState_default
      [] pedal_type = "PreampMk2" -> PreampMk2State_default
      [] pedal_type = "ChromaConsole" -> ChromaConsoleState_default
      [] pedal_type = "GenLossMkii" -> GenLossMkiiState_default

\* <Family>::state_as_cc_map
state_as_cc_map(pedal_type, s) ==
    CASE pedal_type = "Microcosm" -> MicrocosmState_to_cc_map(s)
      [] pedal_type = "PreampMk2" -> PreampMk2State_to_cc_map(s)
      [] pedal_type = "ChromaConsole" -> ChromaConsoleState_to_cc_map(s)
      [] pedal_type = "GenLossMkii" -> GenLossMkiiState_to_cc_map(s)

cc_number(pedal_type, p) ==
    CASE pedal_type = "Microcosm" -> MicrocosmParameter_cc_number(p)
      [] pedal_type = "PreampMk2" -> PreampMk2Parameter_cc_number(p)
      [] pedal_type = "ChromaConsole" -> ChromaConsoleParameter_cc_number(p)
      [] pedal_type = "GenLossMkii" -> GenLossMkiiParameter_cc_number(p)
      [] pedal_type = "Cxm1978" -> Cxm1978Parameter_cc_number(p)

cc_value(pedal_type, p) ==
    CASE pedal_type = "Microcosm" -> MicrocosmParameter_cc_value(p)
      [] pedal_type = "PreampMk2" -> PreampMk2Parameter_cc_value(p)

update_state(pedal_type, s, p) ==
    CASE pedal_type = "Microcosm" -> Microcosm_update_state(s, p)
      [] pedal_type = "PreampMk2" -> PreampMk2_update_state(s, p)

\* PedalCapabilities::supports_program_change of each profile.
supports_program_change(pedal_type) ==
    CASE pedal_type = "Microcosm" -> TRUE
      [] pedal_type = "GenLossMkii" -> FALSE
      [] pedal_type = "ChromaConsole" -> TRUE
      [] pedal_type = "PreampMk2" -> TRUE

\* The families the manager has a send_<family>_program_change method for.
ProgramChangeTypes == {"Microcosm", "ChromaConsole", "PreampMk2"}

\* The message of the `_ =>` arm of each typed manager method.
NotFamilyError(pedal_type) ==
    CASE pedal_type = "Microcosm" -> "Other: Device is not a Microcosm"
      [] pedal_type = "PreampMk2" -> "Other: Device is not a Preamp MK II"
      [] pedal_type = "ChromaConsole" ->
            "Other: Device is not a Chroma Console"
      [] pedal_type = "GenLossMkii" -> "Other: Device is not a Gen Loss MKII"

\* The CC numbers a profile documents as excluded from recall
\* (the NOTE in PreampMk2State::to_cc_map); the Microcosm documents none.
RecallExclusion(pedal_type) ==
    CASE pedal_type = "PreampMk2" -> {CC_EXPRESSION, CC_BYPASS}
      [] OTHER -> {}

(***************************************************************************)
(* Inputs the commands are called with.                                    *)
(***************************************************************************)

ParameterInputs(pedal_type) ==
    CASE pedal_type = "Microcosm" ->
            << [tag |-> "Time", v |-> 100],
               [tag |-> "PresetCopy", v |-> 0] >>
      [] pedal_type = "PreampMk2" ->
            << [tag |-> "Volume", v |-> 100] >>

\* The full states handed to recall_preset.
PresetInputs(pedal_type) ==
    CASE pedal_type = "Microcosm" ->
            << [MicrocosmState_default EXCEPT !.mix = 127,
                                              !.shape = "Saw",
                                              !.bypass = TRUE] >>
      [] pedal_type = "PreampMk2" ->
            << [PreampMk2State_default EXCEPT !.gain = 127,
                                              !.fuzz_mode = "Gated",
                                              !.expression = 90,
                                              !.bypass = TRUE] >>
      [] pedal_type = "ChromaConsole" ->
            << [ChromaConsoleState_default EXCEPT !.mix = 127,
                                                  !.character_module = "Fuzz",
                                                  !.bypass_state = "Engaged",
                                                  !.texture_bypass = TRUE] >>
      [] pedal_type = "GenLossMkii" ->
            << [GenLossMkiiState_default EXCEPT !.wow = 127,
                                                !.model = "CAM8",
                                                !.expression = 90,
                                                !.bypass = TRUE] >>

ProgramInputs == {5, 44}

\* Presets stored in the library, by id; "missing" is an id of no preset.
PresetIdInputs == {"micro1", "preamp1", "missing"}
Presets ==
    [id \in {"micro1", "preamp1", "chroma1"} |->
        CASE id = "micro1" ->
                [pedal_type |-> "Microcosm",
                 parameters |-> PresetInputs("Microcosm")[1]]
          [] id = "preamp1" ->
                [pedal_type |-> "PreampMk2",
                 parameters |-> PresetInputs("PreampMk2")[1]]
          [] id = "chroma1" ->
                [pedal_type |-> "ChromaConsole",
                 parameters |-> PresetInputs("ChromaConsole")[1]]]

\* The devices named in calls other than connect, and in
\* save_preset_to_bank.
CallDeviceInputs == {"PedalA", "PedalB"}
SaveDeviceInputs == {"PedalB"}

\* Bank numbers callers pass to save_preset_to_bank.
BankInputs == {0, 45}

\* The presets save_preset_to_bank is called with in the save
\* specification: a preset of each pedal type that has a branch, one of a
\* type that has none, and an unknown id.
SavePresetIdInputs == {"micro1", "chroma1", "preamp1", "missing"}

\* The parameters of the traffic specification: in-range values and values
\* above the 7-bit range (the payload of a fader parameter is a u8).
WideParameterInputs(pedal_type) ==
    CASE pedal_type = "Microcosm" ->
            << [tag |-> "Time", v |-> 100],
               [tag |-> "Time", v |-> 255] >>
      [] pedal_type = "PreampMk2" ->
            << [tag |-> "Volume", v |-> 100],
               [tag |-> "Volume", v |-> 200] >>

\* What the MIDI backend does during one connect call.
ConnectEnv == {"ok", "output_connect_fails", "input_new_fails",
               "input_connect_fails", "output_new_fails"}

\* Raw messages the device side may deliver to a listener.
InboundMessages ==
    << << >>,
       <<248>>,
       <<176, 14, 100>>,
       <<191, 14, 100>>,
       <<176, 14>>,
       <<144, 60, 100>> >>

\* Raw messages delivered to the listeners of the traffic specification:
\* empty, System Real-Time (clock, active sensing), Control Change on
\* channels 1, 2 and 16, a truncated Control Change, Note On and Program
\* Change.
FamilyInboundMessages ==
    << << >>,
       <<248>>,
       <<254>>,
       <<176, 14, 100>>,
       <<177, 14, 100>>,
       <<191, 14, 100>>,
       <<176, 14>>,
       <<144, 60, 100>>,
       <<193, 5>> >>

(***************************************************************************)
(* State.                                                                  *)
(***************************************************************************)

VARIABLES
    connections,   \* MidiManager.connections: device name -> DeviceConnection
    midi_output,   \* MidiManager.midi_output is Some(_)
    app_handle,    \* MidiManager.app_handle is Some(_)
    lock,          \* holder of the SharedMidiManager mutex, or "free"
    pc,            \* position of each command task
    loc,           \* locals of each command task
    last,          \* the manager call or listener callback that ended last
    pedal_banks    \* preset library: rows of the pedal_banks table

vars == <<connections, midi_output, app_handle, lock, pc, loc, last,
          pedal_banks>>

NoConnection == [present |-> FALSE]

NoLocals == [op |-> "none"]

\* MidiConnection::send_cc builds [0xB0 + (channel - 1), cc, value].
CCMessage(midi_channel, cc, value) == <<176 + (midi_channel - 1), cc, value>>

\* MidiConnection::send_program_change builds [0xC0 + (channel - 1), program].
PCMessage(midi_channel, program) == <<192 + (midi_channel - 1), program>>

Done(op, pedal_type, dev, arg, result, sent) ==
    [op |-> op, pedal_type |-> pedal_type, dev |-> dev, arg |-> arg,
     result |-> result, sent |-> sent, events |-> << >>]

Init ==
    /\ connections = [d \in DeviceNames |-> NoConnection]
    /\ midi_output = TRUE
    /\ app_handle = FALSE
    /\ lock = "free"
    /\ pc = [t \in Threads |-> "idle"]
    /\ loc = [t \in Threads |-> NoLocals]
    /\ last = Done("new", "", "", 0, "Ok", << >>)
    /\ pedal_banks = {}

\* A lock that excludes nobody: lock() returns whoever holds the manager.
CanLock_unguarded(t) == pc[t] = "idle"

\* A command task may enter the manager: manager.lock() returns.
CanLock(t) == pc[t] = "idle" /\ lock = "free"

\* The application's setup hook has run; commands are served only then.
Running == app_handle

(***************************************************************************)
(* MidiManager::set_app_handle (run once by the application's setup hook). *)
(***************************************************************************)
set_app_handle ==
    /\ ~Running
    /\ app_handle' = TRUE
    /\ UNCHANGED <<connections, midi_output, lock, pc, loc, last>>

(***************************************************************************)
(* MidiManager::setup_midi_input: the error it returns, or "Some"/"None"   *)
(* for the listener handle.                                                *)
(***************************************************************************)
setup_midi_input(device_name, env) ==
    IF ~app_handle THEN "None"
    ELSE IF env = "input_new_fails" THEN "Other: MidiInput::new"
    ELSE IF device_name \in InputPortNames
         THEN IF env = "input_connect_fails" THEN "ConnectionFailed"
              ELSE "Some"
         ELSE "None"

\* The duplicate check left out: every name counts as not yet connected.
contains_key_never(device_name) == FALSE

\* self.connections.contains_key(device_name)
contains_key(device_name) == connections[device_name].present

\* A connect without the channel validation.
connect_channel_unchecked(pedal_type, device_name, midi_channel, env) ==
    LET unchanged(r) == [result |-> r, connections |-> connections,
                         midi_output |-> midi_output]
        taken(r) == [result |-> r, connections |-> connections,
                     midi_output |-> FALSE]
        input == setup_midi_input(device_name, env)
        inserted == [connections EXCEPT ![device_name] =
                        [present |-> TRUE,
                         pedal_type |-> pedal_type,
                         midi_channel |-> midi_channel,
                         input |-> (input = "Some"),
                         state |-> DefaultState(pedal_type)]]
    IN  IF contains_key(device_name)
            THEN unchanged("AlreadyConnected")
        ELSE IF ~midi_output
            THEN unchanged("Other: MIDI output not initialized")
        ELSE IF device_name \notin OutputPortNames
            THEN taken("DeviceNotFound")
        ELSE IF env = "output_connect_fails"
            THEN taken("ConnectionFailed")
        ELSE IF input \notin {"Some", "None"}
            THEN taken(input)
        ELSE IF env = "output_new_fails"
            THEN [result |-> "Other: MidiOutput::new",
                  connections |-> inserted, midi_output |-> FALSE]
        ELSE [result |-> "Ok", connections |-> inserted,
              midi_output |-> TRUE]

(***************************************************************************)
(* MidiManager::connect_<family>(device_name, midi_channel): the result    *)
(* and the manager fields after the call.                                  *)
(***************************************************************************)
connect(pedal_type, device_name, midi_channel, env) ==
    LET unchanged(r) == [result |-> r, connections |-> connections,
                         midi_output |-> midi_output]
        taken(r) == [result |-> r, connections |-> connections,
                     midi_output |-> FALSE]
        input == setup_midi_input(device_name, env)
        inserted == [connections EXCEPT ![device_name] =
                        [present |-> TRUE,
                         pedal_type |-> pedal_type,
                         midi_channel |-> midi_channel,
                         input |-> (input = "Some"),
                         state |-> DefaultState(pedal_type)]]
    IN  IF midi_channel < 1 \/ midi_channel > 16
            THEN unchanged("InvalidChannel")
        ELSE IF contains_key(device_name)
            THEN unchanged("AlreadyConnected")
        ELSE IF ~midi_output
            THEN unchanged("Other: MIDI output not initialized")
        ELSE IF device_name \notin OutputPortNames
            THEN taken("DeviceNotFound")
        ELSE IF env = "output_connect_fails"
            THEN taken("ConnectionFailed")
        ELSE IF input \notin {"Some", "None"}
            THEN taken(input)
        ELSE IF env = "output_new_fails"
            THEN [result |-> "Other: MidiOutput::new",
                  connections |-> inserted, midi_output |-> FALSE]
        ELSE [result |-> "Ok", connections |-> inserted,
              midi_output |-> TRUE]

Connect(t, pedal_type, device_name, midi_channel, env) ==
    /\ CanLock(t)
    /\ LET r == connect(pedal_type, device_name, midi_channel, env)
       IN  /\ connections' = r.connections
           /\ midi_output' = r.midi_output
           /\ last' = Done("connect", pedal_type, device_name, midi_channel,
                           r.result, << >>)
    /\ UNCHANGED <<app_handle, lock, pc, loc>>

(***************************************************************************)
(* MidiManager::disconnect(device_name)                                    *)
(***************************************************************************)
\* A disconnect that drops every connection of the registry.
Disconnect_clears_registry(t, device_name) ==
    /\ CanLock(t)
    /\ IF connections[device_name].present
       THEN /\ connections' = [d \in DeviceNames |-> NoConnection]
            /\ last' = Done("disconnect", "", device_name, 0, "Ok", << >>)
       ELSE /\ connections' = connections
            /\ last' = Done("disconnect", "", device_name, 0, "NotConnected",
                            << >>)
    /\ UNCHANGED <<midi_output, app_handle, lock, pc, loc>>

Disconnect(t, device_name) ==
    /\ CanLock(t)
    /\ IF connections[device_name].present
       THEN /\ connections' = [connections EXCEPT ![device_name] = NoConnection]
            /\ last' = Done("disconnect", "", device_name, 0, "Ok", << >>)
       ELSE /\ connections' = connections
            /\ last' = Done("disconnect", "", device_name, 0, "NotConnected",
                            << >>)
    /\ UNCHANGED <<midi_output, app_handle, lock, pc, loc>>

(***************************************************************************)
(* MidiConnection::send_cc / send_program_change: whether the transport    *)
(* accepted the message, and what went on the wire.                        *)
(***************************************************************************)
send_cc(midi_channel, cc, value, send_ok) ==
    IF send_ok
    THEN [result |-> "Ok", wire |-> << CCMessage(midi_channel, cc, value) >>]
    ELSE [result |-> "SendFailed", wire |-> << >>]

send_program_change(midi_channel, program, send_ok) ==
    IF send_ok
    THEN [result |-> "Ok", wire |-> << PCMessage(midi_channel, program) >>]
    ELSE [result |-> "SendFailed", wire |-> << >>]

(***************************************************************************)
(* MidiManager::send_<family>_parameter(device_name, param)                *)
(***************************************************************************)

\* The shadow state updated before the send, whatever the send returns.
send_parameter_update_first(pedal_type, device_name, param, send_ok) ==
    LET device == connections[device_name]
        failed(r) == [result |-> r, connections |-> connections,
                      sent |-> << >>]
    IN  IF ~device.present THEN failed("NotConnected")
        ELSE IF device.pedal_type # pedal_type
            THEN failed(NotFamilyError(pedal_type))
        ELSE LET r == send_cc(device.midi_channel,
                              cc_number(pedal_type, param),
                              cc_value(pedal_type, param), send_ok)
             IN  [result |-> r.result,
                  connections |->
                     [connections EXCEPT ![device_name].state =
                         update_state(pedal_type, device.state, param)],
                  sent |-> r.wire]

\* An unknown device name treated as a silent no-op.
send_parameter_silent(pedal_type, device_name, param, send_ok) ==
    LET device == connections[device_name]
        failed(r) == [result |-> r, connections |-> connections,
                      sent |-> << >>]
    IN  IF ~device.present THEN failed("Ok")
        ELSE IF device.pedal_type # pedal_type
            THEN failed(NotFamilyError(pedal_type))
        ELSE LET r == send_cc(device.midi_channel,
                              cc_number(pedal_type, param),
                              cc_value(pedal_type, param), send_ok)
             IN  IF r.result # "Ok" THEN failed(r.result)
                 ELSE [result |-> "Ok",
                       connections |->
                          [connections EXCEPT ![device_name].state =
                              update_state(pedal_type, device.state, param)],
                       sent |-> r.wire]

\* A parameter sent to whatever family the connection has, its shadow state
\* left alone when the family is another one.
send_parameter_any_family(pedal_type, device_name, param, send_ok) ==
    LET device == connections[device_name]
        failed(r) == [result |-> r, connections |-> connections,
                      sent |-> << >>]
    IN  IF ~device.present THEN failed("NotConnected")
        ELSE LET r == send_cc(device.midi_channel,
                              cc_number(pedal_type, param),
                              cc_value(pedal_type, param), send_ok)
             IN  IF r.result # "Ok" THEN failed(r.result)
                 ELSE [result |-> "Ok",
                       connections |->
                          IF device.pedal_type # pedal_type THEN connections
                          ELSE [connections EXCEPT ![device_name].state =
                                  update_state(pedal_type, device.state,
                                               param)],
                       sent |-> r.wire]

send_parameter(pedal_type, device_name, param, send_ok) ==
    LET device == connections[device_name]
        failed(r) == [result |-> r, connections |-> connections,
                      sent |-> << >>]
    IN  IF ~device.present THEN failed("NotConnected")
        ELSE IF device.pedal_type # pedal_type
            THEN failed(NotFamilyError(pedal_type))
        ELSE LET r == send_cc(device.midi_channel,
                              cc_number(pedal_type, param),
                              cc_value(pedal_type, param), send_ok)
             IN  IF r.result # "Ok" THEN failed(r.result)
                 ELSE [result |-> "Ok",
                       connections |->
                          [connections EXCEPT ![device_name].state =
                              update_state(pedal_type, device.state, param)],
                       sent |-> r.wire]

SendParameter(t, pedal_type, device_name, param, send_ok) ==
    /\ CanLock(t)
    /\ LET r == send_parameter(pedal_type, device_name, param, send_ok)
       IN  /\ connections' = r.connections
           /\ last' = Done("send_parameter", pedal_type, device_name, param,
                           r.result, r.sent)
    /\ UNCHANGED <<midi_output, app_handle, lock, pc, loc>>

(***************************************************************************)
(* MidiManager::send_microcosm_program_change and                          *)
(* MidiManager::send_preamp_mk2_program_change                             *)
(***************************************************************************)
\* A program change sent to whatever family the connection has.
program_change_any_family(pedal_type, device_name, program, send_ok) ==
    LET device == connections[device_name]
        failed(r) == [result |-> r, connections |-> connections,
                      sent |-> << >>]
    IN  IF pedal_type = "PreampMk2" /\ program > 29
            THEN failed("Other: Invalid preset slot")
        ELSE IF ~device.present THEN failed("NotConnected")
        ELSE LET r == send_program_change(device.midi_channel, program,
                                          send_ok)
             IN  IF r.result # "Ok" THEN failed(r.result)
                 ELSE [result |-> "Ok", connections |-> connections,
                       sent |-> r.wire]

program_change(pedal_type, device_name, program, send_ok) ==
    LET device == connections[device_name]
        failed(r) == [result |-> r, connections |-> connections,
                      sent |-> << >>]
    IN  IF pedal_type = "PreampMk2" /\ program > 29
            THEN failed("Other: Invalid preset slot")
        ELSE IF ~device.present THEN failed("NotConnected")
        ELSE IF device.pedal_type # pedal_type
            THEN failed(NotFamilyError(pedal_type))
        ELSE LET r == send_program_change(device.midi_channel, program,
                                          send_ok)
             IN  IF r.result # "Ok" THEN failed(r.result)
                 ELSE [result |-> "Ok",
                       connections |->
                          IF pedal_type = "Microcosm"
                          THEN [connections EXCEPT ![device_name].state =
                                  Microcosm_set_current_preset(device.state,
                                                               program)]
                          ELSE connections,
                       sent |-> r.wire]

SendProgramChange(t, pedal_type, device_name, program, send_ok) ==
    /\ CanLock(t)
    /\ LET r == program_change(pedal_type, device_name, program, send_ok)
       IN  /\ connections' = r.connections
           /\ last' = Done("send_program_change", pedal_type, device_name,
                           program, r.result, r.sent)
    /\ UNCHANGED <<midi_output, app_handle, lock, pc, loc>>

(***************************************************************************)
(* MidiManager::get_<family>_state(device_name): the error, or "Ok" with   *)
(* a clone of the shadow state in `arg`.                                   *)
(***************************************************************************)
\* A query that answers for an unknown name with the profile's default.
get_state_default(pedal_type, device_name) ==
    LET device == connections[device_name]
    IN  IF ~device.present
            THEN [result |-> "Ok", state |-> DefaultState(pedal_type)]
        ELSE IF device.pedal_type # pedal_type
            THEN [result |-> NotFamilyError(pedal_type), state |-> 0]
        ELSE [result |-> "Ok", state |-> device.state]

get_state(pedal_type, device_name) ==
    LET device == connections[device_name]
    IN  IF ~device.present THEN [result |-> "NotConnected", state |-> 0]
        ELSE IF device.pedal_type # pedal_type
            THEN [result |-> NotFamilyError(pedal_type), state |-> 0]
        ELSE [result |-> "Ok", state |-> device.state]

GetState(t, pedal_type, device_name) ==
    /\ CanLock(t)
    /\ LET r == get_state(pedal_type, device_name)
       IN  last' = Done("get_state", pedal_type, device_name, r.state,
                        r.result, << >>)
    /\ UNCHANGED <<connections, midi_output, app_handle, lock, pc, loc>>

(***************************************************************************)
(* MidiManager::recall_<family>_preset(device_name, state)                 *)
(***************************************************************************)

RECURSIVE AscendingEntries(_)
AscendingEntries(cc_map) ==
    IF cc_map = {} THEN << >>
    ELSE LET first == CHOOSE e \in cc_map : \A f \in cc_map : e[1] <= f[1]
         IN  <<first>> \o AscendingEntries(cc_map \ {first})

Reverse(seq) == [i \in 1..Len(seq) |-> seq[Len(seq) + 1 - i]]

Rotate(seq, k) ==
    [i \in 1..Len(seq) |-> seq[((i - 1 + k) % Len(seq)) + 1]]

\* cc_map.iter(): the entries in the order this HashMap instance yields them.
HashMapIter(cc_map, seed) ==
    LET asc == AscendingEntries(cc_map)
        base == IF seed % 2 = 1 THEN Reverse(asc) ELSE asc
    IN  Rotate(base, seed \div 2)

\* The supplied state stored although a send of the loop failed.
recall_device_state_on_failure(device_state, temp, phase) ==
    IF phase \in {"complete", "failed"} THEN temp ELSE device_state

\* The supplied state stored before the loop is over.
recall_device_state_eager(device_state, temp, phase) ==
    IF phase \in {"complete", "sending"} THEN temp ELSE device_state

\* The shadow state of the device while the recall loop is sending, after a
\* send of the loop failed, and after the loop has completed:
\* `*device_state = temp` is the statement after the loop.
recall_device_state(device_state, temp, phase) ==
    IF phase = "complete" THEN temp ELSE device_state

RecallBegin(t, pedal_type, device_name, state, seed) ==
    /\ CanLock(t)
    /\ LET device == connections[device_name]
       IN  IF ~device.present
           THEN /\ last' = Done("recall_preset", pedal_type, device_name,
                                state, "NotConnected", << >>)
                /\ UNCHANGED <<lock, pc, loc>>
           ELSE IF device.pedal_type # pedal_type
           THEN /\ last' = Done("recall_preset", pedal_type, device_name,
                                state, NotFamilyError(pedal_type), << >>)
                /\ UNCHANGED <<lock, pc, loc>>
           ELSE /\ lock' = t
                /\ pc' = [pc EXCEPT ![t] = "recall"]
                /\ loc' = [loc EXCEPT ![t] =
                             [op |-> "recall_preset",
                              pedal_type |-> pedal_type,
                              dev |-> device_name,
                              state |-> state,
                              pre |-> device.state,
                              cc_map |-> HashMapIter(
                                  state_as_cc_map(pedal_type, state), seed),
                              idx |-> 1,
                              sent |-> << >>]]
                /\ last' = Done("recall_begin", pedal_type, device_name,
                                0, "Ok", << >>)
    /\ UNCHANGED <<connections, midi_output, app_handle>>

\* One iteration of `for (cc_number, value) in cc_map.iter()`.
RecallSend(t, send_ok) ==
    /\ pc[t] = "recall"
    /\ lock = t
    /\ loc[t].idx <= Len(loc[t].cc_map)
    /\ LET l == loc[t]
           device == connections[l.dev]
           entry == l.cc_map[l.idx]
           r == send_cc(device.midi_channel, entry[1], entry[2], send_ok)
       IN  IF r.result = "Ok"
           THEN /\ loc' = [loc EXCEPT ![t].sent = l.sent \o r.wire,
                                      ![t].idx = l.idx + 1]
                /\ connections' = [connections EXCEPT ![l.dev].state =
                      recall_device_state(device.state, l.state, "sending")]
                /\ UNCHANGED <<lock, pc, last>>
           ELSE /\ connections' = [connections EXCEPT ![l.dev].state =
                      recall_device_state(device.state, l.state, "failed")]
                /\ last' = Done("recall_preset", l.pedal_type, l.dev, l.state,
                                r.result, l.sent)
                /\ lock' = "free"
                /\ pc' = [pc EXCEPT ![t] = "idle"]
                /\ loc' = [loc EXCEPT ![t] = NoLocals]
    /\ UNCHANGED <<midi_output, app_handle>>

\* The loop is over: `*device_state = temp; Ok(())`.
RecallFinish(t) ==
    /\ pc[t] = "recall"
    /\ lock = t
    /\ loc[t].idx > Len(loc[t].cc_map)
    /\ LET l == loc[t]
       IN  /\ connections' = [connections EXCEPT ![l.dev].state =
                  recall_device_state(connections[l.dev].state, l.state,
                                      "complete")]
           /\ last' = Done("recall_preset", l.pedal_type, l.dev, l.state,
                           "Ok", l.sent)
    /\ lock' = "free"
    /\ pc' = [pc EXCEPT ![t] = "idle"]
    /\ loc' = [loc EXCEPT ![t] = NoLocals]
    /\ UNCHANGED <<midi_output, app_handle>>

(***************************************************************************)
(* The listener closure of setup_midi_input: the events it emits for one   *)
(* raw message.  It captures device name, pedal type and channel and       *)
(* nothing else: it has no handle on the manager.                          *)
(***************************************************************************)
\* A listener that forwards Control Changes of every channel.
listener_any_channel(device_name, pedal_type, midi_channel, message) ==
    IF Len(message) = 0 THEN << >>
    ELSE IF message[1] >= 248 THEN << >>
    ELSE IF Len(message) >= 3
            /\ message[1] >= 176 /\ message[1] <= 191
         THEN << [device_name |-> device_name,
                  pedal_type |-> pedal_type,
                  channel |-> (message[1] % 16) + 1,
                  cc_number |-> message[2],
                  value |-> message[3]] >>
         ELSE << >>

listener(device_name, pedal_type, midi_channel, message) ==
    IF Len(message) = 0 THEN << >>
    ELSE IF message[1] >= 248 THEN << >>
    ELSE IF Len(message) >= 3
            /\ message[1] >= 176 /\ message[1] <= 191
            /\ ((message[1] % 16) + 1) = midi_channel
         THEN << [device_name |-> device_name,
                  pedal_type |-> pedal_type,
                  channel |-> (message[1] % 16) + 1,
                  cc_number |-> message[2],
                  value |-> message[3]] >>
         ELSE << >>

Listener(device_name, message) ==
    /\ connections[device_name].present
    /\ connections[device_name].input
    /\ LET device == connections[device_name]
       IN  last' = [op |-> "inbound", pedal_type |-> device.pedal_type,
                    dev |-> device_name, arg |-> message, result |-> "Ok",
                    sent |-> << >>,
                    events |-> listener(device_name, device.pedal_type,
                                        device.midi_channel, message)]
    /\ UNCHANGED <<connections, midi_output, app_handle, lock, pc, loc>>

(***************************************************************************)
(* Preset library: get_bank_config, BankNumber::new, assign_to_bank.       *)
(***************************************************************************)

\* get_bank_config(pedal_type): Some(config) as a one-element sequence.
get_bank_config(pedal_type) ==
    CASE pedal_type = "Microcosm" ->
            << [program_change_start |-> 45, program_change_end |-> 60,
                midi_save |-> "Supported"] >>
      [] pedal_type = "ChromaConsole" ->
            << [program_change_start |-> 0, program_change_end |-> 79,
                midi_save |-> "ManualOnly"] >>
      [] OTHER -> << >>

\* PresetLibrary::assign_to_bank: the result and the table afterwards.
assign_to_bank(pedal_type, bank_number, preset_id) ==
    LET config == get_bank_config(pedal_type)
    IN  IF config = << >>
           \/ bank_number < config[1].program_change_start
           \/ bank_number > config[1].program_change_end
        THEN [result |-> "InvalidBankNumber", pedal_banks |-> pedal_banks]
        ELSE IF preset_id \notin DOMAIN Presets
        THEN [result |-> "NotFound", pedal_banks |-> pedal_banks]
        ELSE [result |-> "Ok",
              pedal_banks |->
                { row \in pedal_banks :
                    ~(row[1] = pedal_type /\ row[2] = bank_number) }
                \cup { <<pedal_type, bank_number, preset_id>> }]

(***************************************************************************)
(* save_preset_to_bank (command layer).                                    *)
(***************************************************************************)

SaveDone(l, result, sent) ==
    Done("save_preset_to_bank", l.pedal_type, l.dev,
         <<l.preset_id, l.bank_number>>, result, sent)

\* From the call to the first manager.lock(): the preset and its bank
\* configuration are looked up and the program number is computed.
\* `bank_number - 1` is u8 arithmetic: on 0 it panics when the build has
\* overflow checks and wraps to 255 when it has not.
SaveStart(t, device_name, preset_id, bank_number, overflow_checks) ==
    /\ pc[t] = "idle"
    /\ LET l == [op |-> "save_preset_to_bank", dev |-> device_name,
                 preset_id |-> preset_id, bank_number |-> bank_number,
                 pedal_type |-> IF preset_id \in DOMAIN Presets
                                THEN Presets[preset_id].pedal_type ELSE "",
                 midi_program |-> (bank_number - 1) % 256,
                 sent |-> << >>]
           fail(r) == /\ last' = SaveDone(l, r, << >>)
                      /\ UNCHANGED <<pc, loc>>
       IN  IF preset_id \notin DOMAIN Presets THEN fail("NotFound")
           ELSE IF get_bank_config(l.pedal_type) = << >>
               THEN fail("No bank configuration for pedal type")
           ELSE IF l.pedal_type = "Microcosm"
               THEN IF bank_number = 0 /\ overflow_checks
                    THEN fail("panic: attempt to subtract with overflow")
                    ELSE /\ pc' = [pc EXCEPT ![t] = "save_copy"]
                         /\ loc' = [loc EXCEPT ![t] = l]
                         /\ UNCHANGED last
           ELSE IF l.pedal_type = "ChromaConsole"
               THEN /\ pc' = [pc EXCEPT ![t] = "save_chroma_navigate"]
                    /\ loc' = [loc EXCEPT ![t] = l]
                    /\ UNCHANGED last
           ELSE fail("Unsupported pedal type")
    /\ UNCHANGED <<connections, midi_output, app_handle, lock, pedal_banks>>

\* The message of each step of the Microcosm choreography.
SaveStepParameter(step) ==
    CASE step = "save_copy" -> [tag |-> "PresetCopy", v |-> 0]
      [] step = "save_commit" -> [tag |-> "PresetSave", v |-> 0]

\* The Save trigger sent before the Program Change.
SaveNextStep_commit_first(step) ==
    CASE step = "save_copy" -> "save_commit"
      [] step = "save_commit" -> "save_navigate"
      [] step = "save_navigate" -> "save_assign"

\* The assignment recorded right after the Copy trigger.
SaveNextStep_assign_after_copy(step) ==
    CASE step = "save_copy" -> "save_assign"
      [] step = "save_navigate" -> "save_commit"
      [] step = "save_commit" -> "save_assign"

\* The step that follows a step whose send returned Ok (after the sleep).
SaveNextStep(step) ==
    CASE step = "save_copy" -> "save_navigate"
      [] step = "save_navigate" -> "save_commit"
      [] step = "save_commit" -> "save_assign"

\* Steps 1 and 3: lock, send_microcosm_parameter(PresetCopy / PresetSave),
\* unlock, then sleep 1000 ms.
SaveTrigger(t, send_ok) ==
    /\ pc[t] \in {"save_copy", "save_commit"}
    /\ lock = "free"
    /\ LET l == loc[t]
           r == send_parameter("Microcosm", l.dev, SaveStepParameter(pc[t]),
                               send_ok)
       IN  /\ connections' = r.connections
           /\ IF r.result = "Ok"
              THEN /\ pc' = [pc EXCEPT ![t] = SaveNextStep(pc[t])]
                   /\ loc' = [loc EXCEPT ![t].sent = l.sent \o r.sent]
                   /\ last' = Done("send_parameter", "Microcosm", l.dev,
                                   SaveStepParameter(pc[t]), r.result, r.sent)
              ELSE /\ pc' = [pc EXCEPT ![t] = "idle"]
                   /\ loc' = [loc EXCEPT ![t] = NoLocals]
                   /\ last' = SaveDone(l, r.result, l.sent)
    /\ UNCHANGED <<midi_output, app_handle, lock, pedal_banks>>

\* Step 2 sending the slot number itself as the program number.
SaveNavigate_slot_number(t, send_ok) ==
    /\ pc[t] = "save_navigate"
    /\ lock = "free"
    /\ LET l == loc[t]
           r == program_change("Microcosm", l.dev, l.bank_number, send_ok)
       IN  /\ connections' = r.connections
           /\ IF r.result = "Ok"
              THEN /\ pc' = [pc EXCEPT ![t] = SaveNextStep(pc[t])]
                   /\ loc' = [loc EXCEPT ![t].sent = l.sent \o r.sent]
                   /\ last' = Done("send_program_change", "Microcosm", l.dev,
                                   l.bank_number, r.result, r.sent)
              ELSE /\ pc' = [pc EXCEPT ![t] = "idle"]
                   /\ loc' = [loc EXCEPT ![t] = NoLocals]
                   /\ last' = SaveDone(l, r.result, l.sent)
    /\ UNCHANGED <<midi_output, app_handle, lock, pedal_banks>>

\* Step 2: lock, send_microcosm_program_change(midi_program), unlock, then
\* sleep 1000 ms.
SaveNavigate(t, send_ok) ==
    /\ pc[t] = "save_navigate"
    /\ lock = "free"
    /\ LET l == loc[t]
           r == program_change("Microcosm", l.dev, l.midi_program, send_ok)
       IN  /\ connections' = r.connections
           /\ IF r.result = "Ok"
              THEN /\ pc' = [pc EXCEPT ![t] = SaveNextStep(pc[t])]
                   /\ loc' = [loc EXCEPT ![t].sent = l.sent \o r.sent]
                   /\ last' = Done("send_program_change", "Microcosm", l.dev,
                                   l.midi_program, r.result, r.sent)
              ELSE /\ pc' = [pc EXCEPT ![t] = "idle"]
                   /\ loc' = [loc EXCEPT ![t] = NoLocals]
                   /\ last' = SaveDone(l, r.result, l.sent)
    /\ UNCHANGED <<midi_output, app_handle, lock, pedal_banks>>

\* ChromaConsole branch, first block: lock,
\* send_chroma_console_program_change(bank_number), unlock, then sleep 50 ms.
SaveChromaNavigate(t, send_ok) ==
    /\ pc[t] = "save_chroma_navigate"
    /\ lock = "free"
    /\ LET l == loc[t]
           r == program_change("ChromaConsole", l.dev, l.bank_number, send_ok)
       IN  /\ connections' = r.connections
           /\ IF r.result = "Ok"
              THEN /\ pc' = [pc EXCEPT ![t] = "save_chroma_recall"]
                   /\ loc' = [loc EXCEPT ![t].sent = l.sent \o r.sent]
                   /\ last' = Done("send_program_change", "ChromaConsole",
                                   l.dev, l.bank_number, r.result, r.sent)
              ELSE /\ pc' = [pc EXCEPT ![t] = "idle"]
                   /\ loc' = [loc EXCEPT ![t] = NoLocals]
                   /\ last' = SaveDone(l, r.result, l.sent)
    /\ UNCHANGED <<midi_output, app_handle, lock, pedal_banks>>

\* ChromaConsole branch, second block: lock,
\* recall_chroma_console_preset(device_name, &state), unlock.  The lock is
\* held from the lookup of the device to the end of the loop.
SaveChromaRecall(t, seed, send_ok) ==
    LET l == loc[t]
        device == connections[l.dev]
        state == Presets[l.preset_id].parameters
        fail(r) == /\ last' = SaveDone(l, r, l.sent)
                   /\ lock' = "free"
                   /\ pc' = [pc EXCEPT ![t] = "idle"]
                   /\ loc' = [loc EXCEPT ![t] = NoLocals]
    IN  \/ /\ pc[t] = "save_chroma_recall"
           /\ lock = "free"
           /\ IF ~device.present THEN fail("NotConnected")
              ELSE IF device.pedal_type # "ChromaConsole"
              THEN fail(NotFamilyError("ChromaConsole"))
              ELSE /\ lock' = t
                   /\ pc' = [pc EXCEPT ![t] = "save_chroma_sending"]
                   /\ loc' = [loc EXCEPT ![t] =
                                l @@
                                [cc_map |-> HashMapIter(
                                     state_as_cc_map("ChromaConsole", state),
                                     seed),
                                 idx |-> 1]]
                   /\ last' = Done("recall_begin", "ChromaConsole", l.dev,
                                   0, "Ok", << >>)
           /\ UNCHANGED <<connections, midi_output, app_handle, pedal_banks>>
        \/ /\ pc[t] = "save_chroma_sending"
           /\ lock = t
           /\ l.idx <= Len(l.cc_map)
           /\ LET entry == l.cc_map[l.idx]
                  r == send_cc(device.midi_channel, entry[1], entry[2],
                               send_ok)
              IN  IF r.result = "Ok"
                  THEN /\ loc' = [loc EXCEPT ![t].sent = l.sent \o r.wire,
                                             ![t].idx = l.idx + 1]
                       /\ connections' = [connections EXCEPT ![l.dev].state =
                             recall_device_state(device.state, state,
                                                 "sending")]
                       /\ UNCHANGED <<lock, pc, last>>
                  ELSE /\ connections' = [connections EXCEPT ![l.dev].state =
                             recall_device_state(device.state, state,
                                                 "failed")]
                       /\ fail(r.result)
           /\ UNCHANGED <<midi_output, app_handle, pedal_banks>>
        \/ /\ pc[t] = "save_chroma_sending"
           /\ lock = t
           /\ l.idx > Len(l.cc_map)
           /\ connections' = [connections EXCEPT ![l.dev].state =
                 recall_device_state(device.state, state, "complete")]
           /\ lock' = "free"
           /\ pc' = [pc EXCEPT ![t] = "save_assign"]
           /\ loc' = [loc EXCEPT ![t] =
                        [f \in DOMAIN l \ {"cc_map", "idx"} |-> l[f]]]
           /\ UNCHANGED <<last, midi_output, app_handle, pedal_banks>>

\* After the MIDI steps: library.assign_to_bank and the command's result.
SaveAssign(t) ==
    /\ pc[t] = "save_assign"
    /\ LET l == loc[t]
           r == assign_to_bank(l.pedal_type, l.bank_number, l.preset_id)
       IN  /\ pedal_banks' = r.pedal_banks
           /\ last' = SaveDone(l, r.result, l.sent)
    /\ pc' = [pc EXCEPT ![t] = "idle"]
    /\ loc' = [loc EXCEPT ![t] = NoLocals]
    /\ UNCHANGED <<connections, midi_output, app_handle, lock>>

(***************************************************************************)
(* Next-state relation.                                                    *)
(***************************************************************************)

ManagerCall ==
    \E t \in CallThreads :
        \/ \E c \in ConnectInputs :
              \E env \in (IF c[3] \in 1..16 /\ c[2] \in OutputPortNames
                          THEN ConnectEnv ELSE {"ok"}) :
                 Connect(t, c[1], c[2], c[3], env)
        \/ \E pedal_type \in PedalTypes, device_name \in CallDeviceInputs :
              \/ \E i \in 1..Len(ParameterInputs(pedal_type)),
                    send_ok \in BOOLEAN :
                    SendParameter(t, pedal_type, device_name,
                                  ParameterInputs(pedal_type)[i], send_ok)
              \/ \E program \in ProgramInputs, send_ok \in BOOLEAN :
                    SendProgramChange(t, pedal_type, device_name, program,
                                      send_ok)
              \/ GetState(t, pedal_type, device_name)
        \/ \E device_name \in CallDeviceInputs : Disconnect(t, device_name)

Recall ==
    \E t \in SequenceThreads :
        \/ \E pedal_type \in PedalTypes, device_name \in CallDeviceInputs,
              seed \in {0, NumSeeds - 1} :
              \E i \in 1..Len(PresetInputs(pedal_type)) :
                 RecallBegin(t, pedal_type, device_name,
                             PresetInputs(pedal_type)[i], seed)
        \/ \E send_ok \in BOOLEAN : RecallSend(t, send_ok)
        \/ RecallFinish(t)

SaveToBank ==
    \E t \in SequenceThreads :
        \/ \E device_name \in SaveDeviceInputs, preset_id \in PresetIdInputs,
              bank_number \in BankInputs :
              \E overflow_checks \in (IF bank_number = 0 THEN BOOLEAN
                                                         ELSE {FALSE}) :
              SaveStart(t, device_name, preset_id, bank_number,
                        overflow_checks)
        \/ \E send_ok \in BOOLEAN : SaveTrigger(t, send_ok)
        \/ \E send_ok \in BOOLEAN : SaveNavigate(t, send_ok)
        \/ SaveAssign(t)

Inbound ==
    \E device_name \in DeviceNames, i \in 1..Len(InboundMessages) :
        Listener(device_name, InboundMessages[i])

Next ==
    \/ set_app_handle /\ UNCHANGED pedal_banks
    \/ Running /\ ManagerCall /\ UNCHANGED pedal_banks
    \/ Running /\ Recall /\ UNCHANGED pedal_banks
    \/ Running /\ Inbound /\ UNCHANGED pedal_banks
    \/ Running /\ SaveToBank

Spec == Init /\ [][Next]_vars

(***************************************************************************)
(* The registry and the recall of all four families: connect, disconnect,  *)
(* get_state and recall_preset, in an environment where every port opens.  *)
(***************************************************************************)

FamilyCall ==
    \E t \in CallThreads :
        \/ \E c \in FamilyConnectInputs : Connect(t, c[1], c[2], c[3], "ok")
        \/ \E pedal_type \in AllPedalTypes, device_name \in CallDeviceInputs :
              GetState(t, pedal_type, device_name)
        \/ \E device_name \in CallDeviceInputs : Disconnect(t, device_name)

FamilyRecall ==
    \E t \in SequenceThreads :
        \/ \E pedal_type \in AllPedalTypes, device_name \in CallDeviceInputs,
              seed \in 0..(NumSeeds - 1) :
              \E i \in 1..Len(PresetInputs(pedal_type)) :
                 RecallBegin(t, pedal_type, device_name,
                             PresetInputs(pedal_type)[i], seed)
        \/ \E send_ok \in BOOLEAN : RecallSend(t, send_ok)
        \/ RecallFinish(t)

NextFamilies ==
    \/ set_app_handle /\ UNCHANGED pedal_banks
    \/ Running /\ FamilyCall /\ UNCHANGED pedal_banks
    \/ Running /\ FamilyRecall /\ UNCHANGED pedal_banks

SpecFamilies == Init /\ [][NextFamilies]_vars

(***************************************************************************)
(* Single-call traffic of all four families: connect, disconnect,          *)
(* send_parameter, send_program_change and the inbound listeners, in an    *)
(* environment where every port opens.                                     *)
(***************************************************************************)

TrafficCall ==
    \E t \in CallThreads :
        \/ \E c \in FamilyConnectInputs : Connect(t, c[1], c[2], c[3], "ok")
        \/ \E pedal_type \in PedalTypes, device_name \in CallDeviceInputs :
              \E i \in 1..Len(WideParameterInputs(pedal_type)),
                 send_ok \in BOOLEAN :
                 SendParameter(t, pedal_type, device_name,
                               WideParameterInputs(pedal_type)[i], send_ok)
        \/ \E pedal_type \in ProgramChangeTypes,
              device_name \in CallDeviceInputs,
              program \in ProgramInputs, send_ok \in BOOLEAN :
              SendProgramChange(t, pedal_type, device_name, program, send_ok)
        \/ \E device_name \in CallDeviceInputs : Disconnect(t, device_name)

FamilyInbound ==
    \E device_name \in DeviceNames, i \in 1..Len(FamilyInboundMessages) :
        Listener(device_name, FamilyInboundMessages[i])

NextTraffic ==
    \/ set_app_handle /\ UNCHANGED pedal_banks
    \/ Running /\ TrafficCall /\ UNCHANGED pedal_banks
    \/ Running /\ FamilyInbound /\ UNCHANGED pedal_banks

SpecTraffic == Init /\ [][NextTraffic]_vars

(***************************************************************************)
(* The typed manager calls of all four families side by side: connect,     *)
(* send_parameter, send_program_change, get_state, disconnect and           *)
(* recall_preset, each addressed to connections of its own and of other     *)
(* families, in an environment where every port opens.                      *)
(***************************************************************************)

CommandCall ==
    \E t \in CallThreads :
        \/ \E c \in FamilyConnectInputs : Connect(t, c[1], c[2], c[3], "ok")
        \/ \E pedal_type \in PedalTypes, device_name \in CallDeviceInputs :
              \E i \in 1..Len(ParameterInputs(pedal_type)),
                 send_ok \in BOOLEAN :
                 SendParameter(t, pedal_type, device_name,
                               ParameterInputs(pedal_type)[i], send_ok)
        \/ \E pedal_type \in ProgramChangeTypes,
              device_name \in CallDeviceInputs,
              program \in ProgramInputs, send_ok \in BOOLEAN :
              SendProgramChange(t, pedal_type, device_name, program, send_ok)
        \/ \E pedal_type \in AllPedalTypes, device_name \in CallDeviceInputs :
              GetState(t, pedal_type, device_name)
        \/ \E device_name \in CallDeviceInputs : Disconnect(t, device_name)

NextCommands ==
    \/ set_app_handle /\ UNCHANGED pedal_banks
    \/ Running /\ CommandCall /\ UNCHANGED pedal_banks
    \/ Running /\ FamilyRecall /\ UNCHANGED pedal_banks

SpecCommands == Init /\ [][NextCommands]_vars

(***************************************************************************)
(* save_preset_to_bank, both branches (Microcosm and Chroma Console),       *)
(* beside the connect, send_program_change and disconnect calls of another  *)
(* task, in an environment where every port opens.                          *)
(***************************************************************************)

SaveCall ==
    \E t \in CallThreads :
        \/ \E c \in FamilyConnectInputs : Connect(t, c[1], c[2], c[3], "ok")
        \/ \E pedal_type \in { p \in ProgramChangeTypes :
                                  get_bank_config(p) # << >> },
              device_name \in CallDeviceInputs,
              program \in ProgramInputs, send_ok \in BOOLEAN :
              SendProgramChange(t, pedal_type, device_name, program, send_ok)
        \/ \E device_name \in CallDeviceInputs : Disconnect(t, device_name)

SaveToBankAll ==
    \E t \in SequenceThreads :
        \/ \E device_name \in CallDeviceInputs,
              preset_id \in SavePresetIdInputs,
              bank_number \in BankInputs :
              \E overflow_checks \in (IF bank_number = 0 THEN BOOLEAN
                                                         ELSE {FALSE}) :
              SaveStart(t, device_name, preset_id, bank_number,
                        overflow_checks)
        \/ \E send_ok \in BOOLEAN : SaveTrigger(t, send_ok)
        \/ \E send_ok \in BOOLEAN : SaveNavigate(t, send_ok)
        \/ \E send_ok \in BOOLEAN : SaveChromaNavigate(t, send_ok)
        \/ \E send_ok \in BOOLEAN : SaveChromaRecall(t, 0, send_ok)
        \/ SaveAssign(t)

NextSave ==
    \/ set_app_handle /\ UNCHANGED pedal_banks
    \/ Running /\ SaveCall /\ UNCHANGED pedal_banks
    \/ Running /\ SaveToBankAll

SpecSave == Init /\ [][NextSave]_vars

(***************************************************************************)
(* MIDI Universal Device Inquiry (identity.rs): parse_identity_reply and   *)
(* the collection and choice of replies in request_device_identity.        *)
(***************************************************************************)

\* a | b on unsigned integers.
RECURSIVE BitOr(_, _)
BitOr(a, b) ==
    IF a = 0 THEN b
    ELSE IF b = 0 THEN a
    ELSE (IF a % 2 = 1 \/ b % 2 = 1 THEN 1 ELSE 0)
         + 2 * BitOr(a \div 2, b \div 2)

\* The loop that collects the version bytes: message[pos..] up to the first
\* 0xF7 or the end of the message (pos is 0-based).
RECURSIVE software_version(_, _)
software_version(message, pos) ==
    IF pos < Len(message) /\ message[pos + 1] # 247
    THEN << message[pos + 1] >> \o software_version(message, pos + 1)
    ELSE << >>

\* A parser that takes the first byte of family and model as the MSB.
parse_identity_reply_msb_first(message) ==
    LET byte(i) == message[i + 1]
        err(e) == [result |-> e]
        extended == byte(5) = 0
        manufacturer_id == IF extended THEN << byte(5), byte(6), byte(7) >>
                                       ELSE << byte(5) >>
        pos == IF extended THEN 8 ELSE 6
    IN  IF Len(message) < 11
            THEN err("Other: Identity reply too short")
        ELSE IF byte(0) # 240 \/ byte(1) # 126 \/ byte(3) # 6 \/ byte(4) # 2
            THEN err("Other: Not a valid Identity Reply message")
        ELSE IF extended /\ Len(message) < 5 + 3
            THEN err("Other: Truncated extended manufacturer ID")
        ELSE IF Len(message) < pos + 2
            THEN err("Other: Truncated device family")
        ELSE IF Len(message) < pos + 4
            THEN err("Other: Truncated device model")
        ELSE [result |-> "Ok",
              manufacturer_id |-> manufacturer_id,
              device_family |-> BitOr((byte(pos) * 128) % 65536, byte(pos + 1)),
              device_model |-> BitOr((byte(pos + 2) * 128) % 65536, byte(pos + 3)),
              software_version |-> software_version(message, pos + 4)]

\* parse_identity_reply(message): the error, or Ok with the identity.
\* byte(i) is message[i] of the source; family and model are u16.
parse_identity_reply(message) ==
    LET byte(i) == message[i + 1]
        err(e) == [result |-> e]
        extended == byte(5) = 0
        manufacturer_id == IF extended THEN << byte(5), byte(6), byte(7) >>
                                       ELSE << byte(5) >>
        pos == IF extended THEN 8 ELSE 6
    IN  IF Len(message) < 11
            THEN err("Other: Identity reply too short")
        ELSE IF byte(0) # 240 \/ byte(1) # 126 \/ byte(3) # 6 \/ byte(4) # 2
            THEN err("Other: Not a valid Identity Reply message")
        ELSE IF extended /\ Len(message) < 5 + 3
            THEN err("Other: Truncated extended manufacturer ID")
        ELSE IF Len(message) < pos + 2
            THEN err("Other: Truncated device family")
        ELSE IF Len(message) < pos + 4
            THEN err("Other: Truncated device model")
        ELSE [result |-> "Ok",
              manufacturer_id |-> manufacturer_id,
              device_family |-> BitOr((byte(pos + 1) * 128) % 65536, byte(pos)),
              device_model |-> BitOr((byte(pos + 3) * 128) % 65536, byte(pos + 2)),
              software_version |-> software_version(message, pos + 4)]

\* Manufacturer IDs of known MIDI interfaces (CME, maker of the WIDI Jack).
interface_ids == { << 0, 32, 99 >> }

\* The callback of the identity listener, run for every message received
\* while the request waits: the identities pushed to `responses`, in order of
\* arrival.  A message that is no Identity Reply or fails to parse is
\* dropped.
RECURSIVE identity_listener(_)
identity_listener(messages) ==
    IF messages = << >> THEN << >>
    ELSE LET message == Head(messages)
             is_reply == /\ Len(message) >= 5
                         /\ message[1] = 240 /\ message[2] = 126
                         /\ message[4] = 6 /\ message[5] = 2
             identity == parse_identity_reply(message)
         IN  (IF is_reply /\ identity.result = "Ok" THEN << identity >>
                                                    ELSE << >>)
             \o identity_listener(Tail(messages))

\* A request that answers with the first reply collected, whoever sent it.
request_device_identity_first(messages) ==
    LET all_responses == identity_listener(messages)
    IN  IF all_responses = << >> THEN << >> ELSE << all_responses[1] >>

\* request_device_identity once the wait is over, for the messages received
\* during the wait: None as << >>, Some(identity) as << identity >>.
request_device_identity(messages) ==
    LET all_responses == identity_listener(messages)
        pedals == { i \in 1..Len(all_responses) :
                      all_responses[i].manufacturer_id \notin interface_ids }
    IN  IF all_responses = << >> THEN << >>
        ELSE IF pedals # {}
            THEN << all_responses[CHOOSE i \in pedals :
                                     \A j \in pedals : i <= j] >>
        ELSE << all_responses[1] >>

\* Raw messages an identity listener may receive: the Roland reply and the
\* extended-ID reply of the unit tests, a Hologram pedal, a CME interface,
\* a reply of 10 bytes, the Identity Request echoed with padding, and
\* extended-ID replies cut after the family and after the model LSB.
IdentityReplies ==
    << << 240, 126, 0, 6, 2, 65, 0, 1, 0, 2, 0, 0, 247 >>,
       << 240, 126, 0, 6, 2, 0, 1, 2, 0, 1, 0, 2, 0, 0, 247 >>,
       << 240, 126, 0, 6, 2, 0, 2, 77, 3, 0, 5, 1, 1, 0, 0, 0, 247 >>,
       << 240, 126, 0, 6, 2, 0, 32, 99, 1, 0, 1, 0, 2, 0, 247 >>,
       << 240, 126, 0, 6, 2, 65, 0, 1, 0, 247 >>,
       << 240, 126, 127, 6, 1, 247, 0, 0, 0, 0, 0 >>,
       << 240, 126, 0, 6, 2, 0, 2, 77, 3, 0, 247 >>,
       << 240, 126, 0, 6, 2, 0, 2, 77, 3, 0, 5, 247 >> >>

\* The messages received during one request, at most MaxReplies of them.
ReplySequences ==
    UNION { [1..n -> { IdentityReplies[i] : i \in 1..Len(IdentityReplies) }] :
              n \in 0..MaxReplies }

(***************************************************************************)
(* The byte codecs on their own: every variant of every enumeration is     *)
(* encoded, every data byte is decoded, and an encoded byte is decoded     *)
(* again (the round trip of the profiles' unit tests).                     *)
(***************************************************************************)

CodecDone(op, enum, arg, result, origin) ==
    [op |-> op, enum |-> enum, arg |-> arg, result |-> result,
     origin |-> origin]

\* The argument a codec is about to be called with: a variant or a byte.
CodecInput(kind, enum, arg) == CodecDone(kind, enum, arg, "none", "none")

InitCodecs ==
    /\ connections = [d \in DeviceNames |-> NoConnection]
    /\ midi_output = TRUE
    /\ app_handle = FALSE
    /\ lock = "free"
    /\ pc = [t \in Threads |-> "idle"]
    /\ loc = [t \in Threads |-> NoLocals]
    /\ pedal_banks = {}
    /\ \/ \E enum \in Enumerations :
             \/ \E v \in EnumValues[enum] :
                   last = CodecInput("variant", enum, v)
             \/ \E value \in CCValues : last = CodecInput("byte", enum, value)
       \/ \E profile \in DOMAIN ParameterTags :
             \E tag \in ParameterTags[profile] :
                last = CodecInput("parameter", profile, tag)
       \/ \E i \in 1..Len(IdentityReplies) :
             last = CodecInput("message", "identity", IdentityReplies[i])
       \/ \E messages \in ReplySequences :
             last = CodecInput("messages", "identity", messages)

\* v.to_cc_value()
ToCcValue ==
    /\ last.op = "variant"
    /\ last' = CodecDone("to_cc_value", last.enum, last.arg,
                         to_cc_value(last.enum, last.arg), "none")
    /\ UNCHANGED <<connections, midi_output, app_handle, lock, pc, loc,
                   pedal_banks>>

\* <Enumeration>::from_cc_value(value) for a byte off the wire.
FromCcValue ==
    /\ last.op = "byte"
    /\ last' = CodecDone("from_cc_value", last.enum, last.arg,
                         from_cc_value(last.enum, last.arg), "none")
    /\ UNCHANGED <<connections, midi_output, app_handle, lock, pc, loc,
                   pedal_banks>>

\* <Enumeration>::from_cc_value(v.to_cc_value()): the byte just encoded is
\* decoded; origin keeps the variant it was encoded from.
DecodeEncoded ==
    /\ last.op = "to_cc_value"
    /\ last' = CodecDone("from_cc_value", last.enum, last.result,
                         from_cc_value(last.enum, last.result), last.arg)
    /\ UNCHANGED <<connections, midi_output, app_handle, lock, pc, loc,
                   pedal_banks>>

\* param.cc_number() of a parameter of one profile; `enum` holds the
\* profile and `arg` the parameter's variant.
CcNumber ==
    /\ last.op = "parameter"
    /\ last' = CodecDone("cc_number", last.enum, last.arg,
                         cc_number(last.enum, [tag |-> last.arg]), "none")
    /\ UNCHANGED <<connections, midi_output, app_handle, lock, pc, loc,
                   pedal_banks>>

\* parse_identity_reply(message) for one received message.
ParseIdentityReply ==
    /\ last.op = "message"
    /\ last' = CodecDone("parse_identity_reply", last.enum, last.arg,
                         parse_identity_reply(last.arg), "none")
    /\ UNCHANGED <<connections, midi_output, app_handle, lock, pc, loc,
                   pedal_banks>>

\* request_device_identity returns, the messages in `arg` having been
\* received while it waited.
RequestDeviceIdentity ==
    /\ last.op = "messages"
    /\ last' = CodecDone("request_device_identity", last.enum, last.arg,
                         request_device_identity(last.arg), "none")
    /\ UNCHANGED <<connections, midi_output, app_handle, lock, pc, loc,
                   pedal_banks>>

NextCodecs ==
    \/ ToCcValue
    \/ FromCcValue
    \/ DecodeEncoded
    \/ CcNumber
    \/ ParseIdentityReply
    \/ RequestDeviceIdentity

SpecCodecs == InitCodecs /\ [][NextCodecs]_vars

(***************************************************************************)
(* Properties.                                                             *)
(***************************************************************************)

\* The step is the return of a connect call with the arguments recorded in
\* last', made under the environment env.
ConnectReturns(env) ==
    /\ last'.op = "connect"
    /\ \E t \in CallThreads :
          Connect(t, last'.pedal_type, last'.dev, last'.arg, env)

\* The step is the return of a send_parameter call with the arguments
\* recorded in last'.
SendParameterReturns(send_ok) ==
    /\ last'.op = "send_parameter"
    /\ \E t \in CallThreads :
          SendParameter(t, last'.pedal_type, last'.dev, last'.arg, send_ok)

\* The errors of a connect that the contract names.
ConnectFailures ==
    {"InvalidChannel", "AlreadyConnected", "DeviceNotFound",
     "ConnectionFailed", "Other: MidiInput::new"}

\* C1: a connect that fails with InvalidChannel, AlreadyConnected,
\* DeviceNotFound, ConnectionFailed or a listener setup error leaves the
\* connections and their shadow states unchanged, and a connect with a valid
\* channel to an available, not yet connected device, in an environment
\* where every port opens, succeeds whatever connects failed before it.
C1_FailedConnectLeavesNoPartialState ==
    [][\A env \in ConnectEnv :
          ConnectReturns(env) =>
             /\ last'.result \in ConnectFailures => connections' = connections
             /\ ( /\ env = "ok"
                  /\ last'.arg \in 1..16
                  /\ last'.dev \in OutputPortNames
                  /\ ~connections[last'.dev].present )
                => last'.result = "Ok"]_vars

\* C2: when the listener of a connected device receives a 3-byte Control
\* Change on the connection's channel, the shadow state becomes the
\* profile's update_from_cc of (CC number, value) and exactly one event with
\* the device name, family, channel, CC number and value is emitted.
C2_InboundCCUpdatesShadowState ==
    [][\A d \in DeviceNames, i \in 1..Len(InboundMessages) :
          LET m == InboundMessages[i]
          IN  ( /\ Listener(d, m)
                /\ connections[d].pedal_type = "PreampMk2"
                /\ Len(m) = 3
                /\ m[1] = 176 + (connections[d].midi_channel - 1) )
              => /\ connections'[d].state =
                      PreampMk2State_update_from_cc(connections[d].state,
                                                    m[2], m[3])
                 /\ last'.events =
                      << [device_name |-> d,
                          pedal_type |-> connections[d].pedal_type,
                          channel |-> connections[d].midi_channel,
                          cc_number |-> m[2],
                          value |-> m[3]] >>]_vars

\* C3: when a send of the recall loop fails, the recall returns SendFailed
\* at once: the failed message is not on the wire, the entries after it are
\* never sent, the task is back to idle with the lock released (no retry),
\* and the shadow state of the device, like the whole registry, is what it
\* was before the recall started.
C3_FailedRecallAbortsAndKeepsState ==
    [][\A t \in Threads :
          (pc[t] = "recall" /\ pc'[t] # "recall" /\ last'.result # "Ok")
          => /\ last'.op = "recall_preset"
             /\ last'.result = "SendFailed"
             /\ last'.sent = loc[t].sent
             /\ Len(last'.sent) < Len(loc[t].cc_map)
             /\ pc'[t] = "idle"
             /\ loc'[t] = NoLocals
             /\ lock' = "free"
             /\ connections'[loc[t].dev].state = loc[t].pre
             /\ connections' = connections]_vars

\* A recall that failed after at least one CC went out, on a device whose
\* shadow state differs from the supplied state.
C3_Witness ==
    /\ last.op = "recall_preset"
    /\ last.result = "SendFailed"
    /\ Len(last.sent) >= 1
    /\ connections[last.dev].present
    /\ connections[last.dev].state # last.arg

\* C4: while a recall is sending, the shadow state of its device is the
\* pre-recall state; the recall returns Ok only when every entry of the map
\* has been sent, and that step takes the shadow state from the pre-recall
\* state to the supplied state; a get_state never returns during a recall,
\* and what it returns is the registry's shadow state.
C4_ShadowStateSwitchesAfterLastCC ==
    [][\A t \in Threads :
          /\ pc'[t] = "recall"
             => connections'[loc'[t].dev].state = loc'[t].pre
          /\ (pc[t] = "recall" /\ pc'[t] # "recall" /\ last'.result = "Ok")
             => /\ Len(loc[t].sent) = Len(loc[t].cc_map)
                /\ connections[loc[t].dev].state = loc[t].pre
                /\ connections'[loc[t].dev].state = loc[t].state
          /\ ( /\ last'.op = "get_state"
               /\ \E u \in CallThreads :
                     GetState(u, last'.pedal_type, last'.dev) )
             => /\ pc[t] # "recall"
                /\ last'.result = "Ok"
                   => last'.arg = connections[last'.dev].state]_vars

\* A recall returned Ok after sending CCs, and the shadow state is the
\* supplied state, which is not the profile's default.
C4_Witness ==
    /\ last.op = "recall_preset"
    /\ last.result = "Ok"
    /\ Len(last.sent) >= 1
    /\ connections[last.dev].present
    /\ connections[last.dev].state = last.arg
    /\ last.arg # DefaultState(last.pedal_type)

\* C5: while a recall is between its lookup and its return, its task holds
\* the manager lock, and no connect, disconnect, send_parameter,
\* send_program_change or get_state of another task, on any device, can
\* return, nor can another task start a recall.
C5_LockHeldThroughoutRecall ==
    \A t \in Threads :
       pc[t] = "recall" =>
          /\ lock = t
          /\ ~ENABLED ManagerCall
          /\ ~ENABLED (\E u \in Threads \ {t}, pedal_type \in PedalTypes,
                          device_name \in CallDeviceInputs :
                          \E i \in 1..Len(PresetInputs(pedal_type)) :
                             RecallBegin(u, pedal_type, device_name,
                                         PresetInputs(pedal_type)[i], 0))

\* A recall has sent its first CC and not yet its last, while a second
\* device is connected.
C5_Witness ==
    \E t \in Threads :
       /\ pc[t] = "recall"
       /\ loc[t].idx > 1
       /\ loc[t].idx <= Len(loc[t].cc_map)
       /\ \E d \in DeviceNames \ {loc[t].dev} : connections[d].present

\* The messages of the Microcosm save choreography, by kind and data byte.
IsCC(m, cc, value) ==
    Len(m) = 3 /\ m[1] \div 16 = 11 /\ m[2] = cc /\ m[3] = value

IsPC(m, program) == Len(m) = 2 /\ m[1] \div 16 = 12 /\ m[2] = program

\* sent is the first n messages of Copy (CC 45), Program Change, Save (CC 46).
SavePrefix(sent, n, midi_program) ==
    /\ Len(sent) = n
    /\ n >= 1 => IsCC(sent[1], 45, 127)
    /\ n >= 2 => IsPC(sent[2], midi_program)
    /\ n >= 3 => IsCC(sent[3], 46, 127)

\* C6: a save_preset_to_bank on the Microcosm has sent nothing before the
\* Copy step, exactly the Copy trigger before the Program Change step,
\* Copy then Program Change before the Save step, and all three in that
\* order before the bank assignment; a call that has returned sent a
\* prefix of that sequence, and all of it only if no send failed.
C6_SaveChoreographyOrdered ==
    /\ \A t \in Threads :
          /\ pc[t] = "save_copy"
             => SavePrefix(loc[t].sent, 0, loc[t].midi_program)
          /\ pc[t] = "save_navigate"
             => SavePrefix(loc[t].sent, 1, loc[t].midi_program)
          /\ pc[t] = "save_commit"
             => SavePrefix(loc[t].sent, 2, loc[t].midi_program)
          /\ pc[t] = "save_assign"
             => SavePrefix(loc[t].sent, 3, loc[t].midi_program)
    /\ last.op = "save_preset_to_bank"
       => /\ SavePrefix(last.sent, Len(last.sent),
                        (last.arg[2] - 1) % 256)
          /\ Len(last.sent) <= 3
          /\ last.result \in {"SendFailed", "NotConnected",
                              NotFamilyError("Microcosm")}
             => Len(last.sent) < 3

\* A save whose three messages all went out, in a state where the call has
\* returned.
C6_Witness ==
    /\ last.op = "save_preset_to_bank"
    /\ Len(last.sent) = 3

\* C7 (as amended): a connect for a device name that has a live connection
\* fails with AlreadyConnected when its channel is in 1..16 and with
\* InvalidChannel when it is not, and in both cases leaves the registry,
\* hence the first connection's family, channel, links and shadow state,
\* and the manager's output handle as they were.
C7_DuplicateConnectRejected ==
    [][\A env \in ConnectEnv :
          (ConnectReturns(env) /\ connections[last'.dev].present)
          => /\ last'.result = IF last'.arg \in 1..16
                               THEN "AlreadyConnected"
                               ELSE "InvalidChannel"
             /\ connections' = connections
             /\ midi_output' = midi_output]_vars

\* A connect was refused with AlreadyConnected and the first connection
\* still holds a shadow state that is not the default.
C7_Witness ==
    /\ last.op = "connect"
    /\ last.result = "AlreadyConnected"
    /\ connections[last.dev].present
    /\ connections[last.dev].state
          # DefaultState(connections[last.dev].pedal_type)

\* C7 (as claimed): every connect for a device name that has a live
\* connection fails with AlreadyConnected and leaves the registry as it was.
C7_DuplicateConnectAlwaysAlreadyConnected ==
    [][\A env \in ConnectEnv :
          (ConnectReturns(env) /\ connections[last'.dev].present)
          => /\ last'.result = "AlreadyConnected"
             /\ connections' = connections]_vars

\* C8: a send_parameter on a connected device of the matching family
\* returns Ok exactly when its one CC message went out, built from the
\* connection's channel and the parameter's number and value, and then the
\* shadow state is the old one with the parameter applied; when the send
\* fails it returns SendFailed, nothing is on the wire and the registry is
\* unchanged.
C8_SendParameterSendsThenUpdates ==
    [][\A send_ok \in BOOLEAN :
          ( /\ SendParameterReturns(send_ok)
            /\ connections[last'.dev].present
            /\ connections[last'.dev].pedal_type = last'.pedal_type )
          => LET device == connections[last'.dev]
                 pedal_type == last'.pedal_type
                 param == last'.arg
             IN  IF send_ok
                 THEN /\ last'.result = "Ok"
                      /\ last'.sent =
                           << CCMessage(device.midi_channel,
                                        cc_number(pedal_type, param),
                                        cc_value(pedal_type, param)) >>
                      /\ connections' =
                           [connections EXCEPT ![last'.dev].state =
                               update_state(pedal_type, device.state, param)]
                 ELSE /\ last'.result = "SendFailed"
                      /\ last'.sent = << >>
                      /\ connections' = connections]_vars

\* A send_parameter failed in the transport on a connected device of the
\* matching family.
C8_Witness ==
    /\ last.op = "send_parameter"
    /\ last.result = "SendFailed"
    /\ connections[last.dev].present
    /\ connections[last.dev].pedal_type = last.pedal_type

\* C9: a send_parameter to a device name with no live connection returns
\* NotConnected, puts nothing on the wire and leaves the registry, hence
\* every shadow state, unchanged.
C9_SendParameterNotConnected ==
    [][\A send_ok \in BOOLEAN :
          (SendParameterReturns(send_ok) /\ ~connections[last'.dev].present)
          => /\ last'.result = "NotConnected"
             /\ last'.sent = << >>
             /\ connections' = connections]_vars

\* A send_parameter returned NotConnected while another device is connected.
C9_Witness ==
    /\ last.op = "send_parameter"
    /\ last.result = "NotConnected"
    /\ ~connections[last.dev].present
    /\ \E d \in DeviceNames : connections[d].present

\* C10: no message a recall has put on the wire, while it is sending or
\* when it has returned, carries a CC number of its profile's
\* recall-exclusion set (CC 100 and CC 102 for the Preamp MK II).
C10_RecallNeverSendsExcludedCC ==
    /\ \A t \in Threads :
          pc[t] = "recall" =>
             \A i \in 1..Len(loc[t].sent) :
                loc[t].sent[i][2] \notin RecallExclusion(loc[t].pedal_type)
    /\ last.op = "recall_preset" =>
          \A i \in 1..Len(last.sent) :
             last.sent[i][2] \notin RecallExclusion(last.pedal_type)

\* A Preamp MK II recall returned Ok for a state whose expression and bypass
\* differ from the defaults, having sent its whole map.
C10_Witness ==
    /\ last.op = "recall_preset"
    /\ last.pedal_type = "PreampMk2"
    /\ last.result = "Ok"
    /\ Len(last.sent) = Cardinality(PreampMk2State_to_cc_map(last.arg))
    /\ last.arg.expression # PreampMk2State_default.expression
    /\ last.arg.bypass # PreampMk2State_default.bypass

\* The listener has nothing to forward for this message on a connection
\* configured for midi_channel: it is empty, a System Real-Time byte, not a
\* complete Control Change, or a Control Change of another channel.
NotForwardable(message, midi_channel) ==
    IF Len(message) = 0 THEN TRUE
    ELSE \/ message[1] >= 248
         \/ message[1] \notin 176..191
         \/ Len(message) < 3
         \/ (message[1] % 16) + 1 # midi_channel

\* C11: an inbound message that is a System Real-Time byte (status 0xF8 and
\* above), is not a Control Change, or is a Control Change on a channel other
\* than the connection's channel changes no shadow state (the registry is
\* unchanged) and emits no event, whatever the family of the device.
C11_FilteredInboundHasNoEffect ==
    [][\A d \in DeviceNames, i \in 1..Len(FamilyInboundMessages) :
          LET m == FamilyInboundMessages[i]
          IN  ( /\ Listener(d, m)
                /\ last'.arg = m
                /\ NotForwardable(m, connections[d].midi_channel) )
              => /\ connections' = connections
                 /\ last'.events = << >>]_vars

\* The listener of a Chroma Console on channel 2 received a Control Change
\* of channel 1 and emitted nothing.
C11_Witness ==
    /\ last.op = "inbound"
    /\ last.pedal_type = "ChromaConsole"
    /\ last.arg = <<176, 14, 100>>
    /\ connections[last.dev].present
    /\ connections[last.dev].midi_channel = 2
    /\ last.events = << >>

\* The fields of a shadow state that are carried by a Control Change, as
\* (CC number, byte) pairs.  For the Preamp MK II these are the entries of
\* its recall map and the expression (CC 100) and bypass (CC 102) fields.
ShadowFieldValues(pedal_type, s) ==
    IF pedal_type = "PreampMk2"
    THEN PreampMk2State_to_cc_map(s)
            \cup { <<CC_EXPRESSION, s.expression>>,
                   <<CC_BYPASS, IF s.bypass THEN 0 ELSE 127>> }
    ELSE state_as_cc_map(pedal_type, s)

\* C12: a step changes a field of a connection's shadow state only to the
\* value carried by a Control Change for that field that the step's
\* operation transmitted on the connection's channel (the messages of a
\* send_parameter or of a whole recall) or that its listener received.
C12_ShadowFieldsFollowMessages ==
    [][\A d \in DeviceNames :
          (connections[d].present /\ connections'[d].present)
          => LET device == connections'[d]
                 changed ==
                    ShadowFieldValues(device.pedal_type, device.state)
                    \ ShadowFieldValues(device.pedal_type,
                                        connections[d].state)
             IN  \A e \in changed :
                    LET message == CCMessage(device.midi_channel, e[1], e[2])
                    IN  \/ \E k \in 1..Len(last'.sent) :
                              last'.sent[k] = message
                        \/ last'.op = "inbound" /\ last'.arg = message]_vars

\* The enumerated fields of each family's shadow state, with their types.
EnumFields(pedal_type) ==
    CASE pedal_type = "PreampMk2" ->
            { <<"jump", "preamp_mk2::Jump">>,
              <<"mids_position", "preamp_mk2::MidsPosition">>,
              <<"q_resonance", "preamp_mk2::QResonance">>,
              <<"diode_clipping", "preamp_mk2::DiodeClipping">>,
              <<"fuzz_mode", "preamp_mk2::FuzzMode">> }
      [] pedal_type = "Microcosm" ->
            { <<"subdivision", "microcosm::SubdivisionValue">>,
              <<"shape", "microcosm::WaveformShape">>,
              <<"looper_speed_stepped", "microcosm::SubdivisionValue">>,
              <<"playback_direction", "microcosm::PlaybackDirection">>,
              <<"routing", "microcosm::LooperRouting">> }
      [] pedal_type = "ChromaConsole" ->
            { <<"character_module", "chroma_console::CharacterModule">>,
              <<"movement_module", "chroma_console::MovementModule">>,
              <<"diffusion_module", "chroma_console::DiffusionModule">>,
              <<"texture_module", "chroma_console::TextureModule">>,
              <<"bypass_state", "chroma_console::BypassState">>,
              <<"gesture_mode", "chroma_console::GestureMode">>,
              <<"capture_mode", "chroma_console::CaptureMode">>,
              <<"capture_routing", "chroma_console::CaptureRouting">>,
              <<"filter_mode", "chroma_console::FilterMode">>,
              <<"calibration_level", "chroma_console::CalibrationLevel">> }
      [] pedal_type = "GenLossMkii" ->
            { <<"model", "gen_loss_mkii::TapeModel">>,
              <<"aux_mode", "gen_loss_mkii::AuxMode">>,
              <<"dry_mode", "gen_loss_mkii::DryMode">>,
              <<"noise_mode", "gen_loss_mkii::NoiseMode">>,
              <<"dip_sweep", "gen_loss_mkii::SweepDirection">>,
              <<"dip_polarity", "gen_loss_mkii::Polarity">>,
              <<"input_gain", "gen_loss_mkii::InputGain">>,
              <<"dsp_bypass", "gen_loss_mkii::DspBypassMode">> }

\* C13: in every state, every enumerated field of every connection's shadow
\* state holds a variant of its enumeration, and every field carried by a
\* Control Change holds a byte in 0..127.
C13_ShadowStateValuesLegal ==
    \A d \in DeviceNames :
       connections[d].present =>
          LET pedal_type == connections[d].pedal_type
              s == connections[d].state
          IN  /\ \A f \in EnumFields(pedal_type) :
                    s[f[1]] \in EnumValues[f[2]]
              /\ \A e \in ShadowFieldValues(pedal_type, s) :
                    e[2] \in CCValues

\* C14: for every enumeration of every profile and every variant v, decoding
\* the byte that encoding v produced yields v again, the three values of the
\* Chroma Console bypass state included.
C14_DecodeOfEncodeIsIdentity ==
    (last.op = "from_cc_value" /\ last.origin # "none")
    => last.result = last.origin

\* C15: every decoder maps each data byte 0..127 to a variant of its
\* enumeration, never to an error.
C15_DecodersTotal ==
    last.op = "from_cc_value" => last.result \in EnumValues[last.enum]

ProfileDefault(pedal_type) ==
    CASE pedal_type = "Microcosm" -> MicrocosmState_default
      [] pedal_type = "PreampMk2" -> PreampMk2State_default
      [] pedal_type = "ChromaConsole" -> ChromaConsoleState_default
      [] pedal_type = "GenLossMkii" -> GenLossMkiiState_default

\* C17: when a connect returns Ok, the shadow state of the new connection
\* is its profile's default state, whatever was connected under that name,
\* recalled into its shadow state and disconnected before.
C17_ConnectResetsShadowState ==
    [][(ConnectReturns("ok") /\ last'.result = "Ok")
       => /\ connections'[last'.dev].present
          /\ connections'[last'.dev].pedal_type = last'.pedal_type
          /\ connections'[last'.dev].state = ProfileDefault(last'.pedal_type)
      ]_vars

\* A connect has just returned Ok with a default shadow state while the
\* other device holds a shadow state a recall has changed.
C17_Witness ==
    /\ last.op = "connect"
    /\ last.result = "Ok"
    /\ connections[last.dev].state = ProfileDefault(last.pedal_type)
    /\ \E d \in DeviceNames \ {last.dev} :
          /\ connections[d].present
          /\ connections[d].state # ProfileDefault(connections[d].pedal_type)

\* The step is the return of a get_state call with the arguments recorded
\* in last'.
GetStateReturns ==
    /\ last'.op = "get_state"
    /\ \E t \in CallThreads : GetState(t, last'.pedal_type, last'.dev)

\* C18: a get_state for a device name with no live connection returns
\* NotConnected and no state: neither a default nor the state a connection
\* of that name held before its disconnect.
C18_GetStateNotConnected ==
    [][(GetStateReturns /\ ~connections[last'.dev].present)
       => /\ last'.result = "NotConnected"
          /\ last'.arg = 0]_vars

\* A get_state returned NotConnected while another device is connected.
C18_Witness ==
    /\ last.op = "get_state"
    /\ last.result = "NotConnected"
    /\ ~connections[last.dev].present
    /\ \E d \in DeviceNames : connections[d].present

\* The step is the return of a disconnect call for the name in last'.
DisconnectReturns ==
    /\ last'.op = "disconnect"
    /\ \E t \in CallThreads : Disconnect(t, last'.dev)

\* C19: a disconnect for a name with no live connection returns NotConnected
\* and leaves the registry unchanged; otherwise it returns Ok and removes
\* that one connection, with its outbound link and its listener, every other
\* connection staying as it was; afterwards is_connected(name) is false and
\* a connect for that name is not refused with AlreadyConnected.
C19_DisconnectRemovesOneConnection ==
    [][DisconnectReturns
       => IF ~connections[last'.dev].present
          THEN /\ last'.result = "NotConnected"
               /\ connections' = connections
          ELSE /\ last'.result = "Ok"
               /\ connections' =
                     [connections EXCEPT ![last'.dev] = NoConnection]
               /\ \A d \in DeviceNames :
                     d = last'.dev => ~contains_key(d)'
               /\ \A c \in FamilyConnectInputs :
                     c[2] = last'.dev
                     => (connect(c[1], c[2], c[3], "ok").result
                           # "AlreadyConnected")']_vars

\* A disconnect has just returned Ok, its name is no longer connected, and
\* the other device is still connected with a shadow state a recall changed.
C19_Witness ==
    /\ last.op = "disconnect"
    /\ last.result = "Ok"
    /\ ~connections[last.dev].present
    /\ \E d \in DeviceNames \ {last.dev} :
          /\ connections[d].present
          /\ connections[d].state # ProfileDefault(connections[d].pedal_type)

\* The step is the return of a send_program_change call with the arguments
\* recorded in last'.
SendProgramChangeReturns ==
    /\ last'.op = "send_program_change"
    /\ \E t \in CallThreads, send_ok \in BOOLEAN :
          SendProgramChange(t, last'.pedal_type, last'.dev, last'.arg,
                            send_ok)

\* C20 (as amended): a send_program_change for a device name with no live
\* connection fails with NotConnected, except that the Preamp MK II method
\* called with a program above 29 fails with its invalid-slot error before
\* the registry is consulted; on a connection whose profile does not support
\* Program Change it fails; in each of these cases nothing is transmitted
\* and the registry is unchanged; and a Program Change goes out only on a
\* live connection of the method's family, whose profile supports it.
C20_ProgramChangeRejected ==
    [][SendProgramChangeReturns
       => LET device == connections[last'.dev]
          IN  /\ ~device.present
                 => /\ last'.result =
                         IF last'.pedal_type = "PreampMk2" /\ last'.arg > 29
                         THEN "Other: Invalid preset slot"
                         ELSE "NotConnected"
                    /\ last'.sent = << >>
                    /\ connections' = connections
              /\ (device.present
                    /\ ~supports_program_change(device.pedal_type))
                 => /\ last'.result # "Ok"
                    /\ last'.sent = << >>
                    /\ connections' = connections
              /\ last'.sent # << >>
                 => /\ device.present
                    /\ device.pedal_type = last'.pedal_type
                    /\ supports_program_change(device.pedal_type)
                    /\ last'.sent =
                          << PCMessage(device.midi_channel, last'.arg) >>]_vars

\* A send_program_change was refused, with nothing transmitted, on a live
\* Gen Loss MKII connection, whose profile has no Program Change support.
C20_Witness ==
    /\ last.op = "send_program_change"
    /\ connections[last.dev].present
    /\ connections[last.dev].pedal_type = "GenLossMkii"
    /\ last.result # "Ok"
    /\ last.sent = << >>

\* C20 (as claimed): every send_program_change for a device name with no
\* live connection fails with NotConnected, and one on a connection whose
\* profile does not support Program Change fails, nothing being transmitted.
C20_ProgramChangeAlwaysNotConnected ==
    [][SendProgramChangeReturns
       => LET device == connections[last'.dev]
          IN  /\ ~device.present
                 => /\ last'.result = "NotConnected"
                    /\ last'.sent = << >>
              /\ (device.present
                    /\ ~supports_program_change(device.pedal_type))
                 => /\ last'.result # "Ok"
                    /\ last'.sent = << >>]_vars

\* The step is the return of a family-typed manager call (send_parameter,
\* send_program_change, get_state, or a recall_preset that returns before
\* its loop) with the arguments recorded in last'.
TypedCallReturns ==
    \/ \E send_ok \in BOOLEAN : SendParameterReturns(send_ok)
    \/ SendProgramChangeReturns
    \/ GetStateReturns
    \/ /\ last'.op = "recall_preset"
       /\ \E t \in SequenceThreads, seed \in 0..(NumSeeds - 1) :
             RecallBegin(t, last'.pedal_type, last'.dev, last'.arg, seed)

\* The connection the call is addressed to is registered as another family.
ProfileMismatch ==
    /\ connections[last'.dev].present
    /\ connections[last'.dev].pedal_type # last'.pedal_type

\* C21 (as amended): a send_parameter, send_program_change, recall_preset
\* or get_state typed for one family and addressed to a connection of
\* another family returns an error, never Ok: the "Device is not a
\* <family>" error of its own family, except that the Preamp MK II program
\* change called with a program above 29 returns its invalid-slot error
\* first; it transmits nothing and leaves the registry, hence that
\* connection's shadow state, unchanged.
C21_ProfileMismatchRejected ==
    [][(TypedCallReturns /\ ProfileMismatch)
       => /\ last'.result # "Ok"
          /\ last'.result =
                IF /\ last'.op = "send_program_change"
                   /\ last'.pedal_type = "PreampMk2"
                   /\ last'.arg > 29
                THEN "Other: Invalid preset slot"
                ELSE NotFamilyError(last'.pedal_type)
          /\ last'.sent = << >>
          /\ connections' = connections
          /\ pc' = pc /\ lock' = lock]_vars

\* A Microcosm-typed send_parameter was refused by a Preamp MK II or Chroma
\* Console connection whose shadow state is not the profile default.
C21_Witness ==
    /\ last.op = "send_parameter"
    /\ last.pedal_type = "Microcosm"
    /\ last.result = "Other: Device is not a Microcosm"
    /\ last.sent = << >>
    /\ connections[last.dev].present
    /\ connections[last.dev].pedal_type # "Microcosm"
    /\ connections[last.dev].state
          # ProfileDefault(connections[last.dev].pedal_type)

\* C21 (as claimed): every family-typed call addressed to a connection of
\* another family returns the "Device is not a <family>" error of its own
\* family, transmits nothing and leaves the shadow state unchanged.
C21_ProfileMismatchAlwaysNotFamily ==
    [][(TypedCallReturns /\ ProfileMismatch)
       => /\ last'.result = NotFamilyError(last'.pedal_type)
          /\ last'.sent = << >>
          /\ connections'[last'.dev].state = connections[last'.dev].state]_vars

\* C22: within one profile no two distinct parameters have the same CC
\* number: the CC number computed for a parameter is the CC number of no
\* other parameter of that profile.
C22_CcNumberInjective ==
    last.op = "cc_number"
    => \A other \in ParameterTags[last.enum] \ {last.arg} :
          cc_number(last.enum, [tag |-> other]) # last.result

\* The CC number of the Chroma Console's BypassState parameter, one of the
\* 33 parameters of that profile, has been computed: 91.
C22_Witness ==
    /\ last.op = "cc_number"
    /\ last.enum = "ChromaConsole"
    /\ last.arg = "BypassState"
    /\ last.result = 91
    /\ Cardinality(ParameterTags["ChromaConsole"]) = 33

C24_SaveProgramIsSlotMinusOne ==
    [][/\ \A t \in SequenceThreads :
             /\ ((\E send_ok \in BOOLEAN : SaveNavigate(t, send_ok))
                    /\ pc'[t] = "save_commit" /\ loc[t].bank_number >= 1)
                => loc'[t].sent =
                      loc[t].sent \o
                      << PCMessage(connections[loc[t].dev].midi_channel,
                                   loc[t].bank_number - 1) >>
             /\ ((\E send_ok \in BOOLEAN : SaveChromaNavigate(t, send_ok))
                    /\ pc'[t] = "save_chroma_recall")
                => loc'[t].sent =
                      << PCMessage(connections[loc[t].dev].midi_channel,
                                   loc[t].bank_number) >>
       /\ (SendProgramChangeReturns /\ last'.result = "Ok")
             => last'.sent =
                   << PCMessage(connections[last'.dev].midi_channel,
                                last'.arg) >>]_vars

\* A Microcosm save to slot 45 has sent its Copy trigger and the Program
\* Change 44 and is about to send the Save trigger.
C24_Witness ==
    \E t \in SequenceThreads :
       /\ pc[t] = "save_commit"
       /\ loc[t].bank_number = 45
       /\ Len(loc[t].sent) = 2
       /\ IsPC(loc[t].sent[2], 44)

\* C25: a parsed Identity Reply has a 3-byte manufacturer ID exactly when the
\* first manufacturer byte is 0x00 and a 1-byte ID otherwise, the ID being
\* those bytes of the message; family and model are each MSB * 128 + LSB of
\* the two following 7-bit bytes, read LSB first.  The reply
\* F0 7E 00 06 02 41 00 01 00 02 00 00 F7 gives manufacturer [0x41], family
\* 128 and model 256, and the extended bytes 00 01 02 give [0x00, 0x01, 0x02].
C25_IdentityReplyParsed ==
    (last.op = "parse_identity_reply" /\ last.result.result = "Ok") =>
        LET message == last.arg
            identity == last.result
            n == Len(identity.manufacturer_id)
            seven_bit(i) == message[i] < 128
        IN  /\ n = 3 <=> message[6] = 0
            /\ n = 1 <=> message[6] # 0
            /\ identity.manufacturer_id = SubSeq(message, 6, 5 + n)
            /\ (seven_bit(6 + n) /\ seven_bit(7 + n)) =>
                   identity.device_family
                       = message[7 + n] * 128 + message[6 + n]
            /\ (seven_bit(8 + n) /\ seven_bit(9 + n)) =>
                   identity.device_model
                       = message[9 + n] * 128 + message[8 + n]
            /\ message = IdentityReplies[1] =>
                   /\ identity.manufacturer_id = << 65 >>
                   /\ identity.device_family = 128
                   /\ identity.device_model = 256
            /\ message = IdentityReplies[2] =>
                   identity.manufacturer_id = << 0, 1, 2 >>

\* The Roland reply of the unit test was parsed: family 128 from 00 01.
C25_Witness ==
    /\ last.op = "parse_identity_reply"
    /\ last.arg = << 240, 126, 0, 6, 2, 65, 0, 1, 0, 2, 0, 0, 247 >>
    /\ last.result.result = "Ok"
    /\ last.result.device_family = 128

\* C26: of the Identity Replies collected for one request, the service
\* returns one whose manufacturer ID is not a known bridge/interface ID
\* whenever such a reply was collected, the first collected reply when every
\* reply is from a known bridge, and no identity when no reply was collected
\* before the timeout.
C26_PedalReplyPreferred ==
    last.op = "request_device_identity" =>
        LET collected == identity_listener(last.arg)
            returned == last.result
            bridge(r) == r.manufacturer_id = << 0, 32, 99 >>
        IN  /\ collected = << >> => returned = << >>
            /\ collected # << >> =>
                   /\ Len(returned) = 1
                   /\ \E i \in 1..Len(collected) : returned[1] = collected[i]
            /\ (\E i \in 1..Len(collected) : ~bridge(collected[i])) =>
                   ~bridge(returned[1])
            /\ (/\ collected # << >>
                /\ \A i \in 1..Len(collected) : bridge(collected[i])) =>
                   returned[1] = collected[1]

\* The interface answered first and the pedal second; the pedal's identity
\* was returned.
C26_Witness ==
    /\ last.op = "request_device_identity"
    /\ Len(last.arg) = 2
    /\ last.arg[1] = << 240, 126, 0, 6, 2, 0, 32, 99, 1, 0, 1, 0, 2, 0, 247 >>
    /\ last.result # << >>
    /\ last.result[1].manufacturer_id = << 0, 2, 77 >>

\* C27: for a given profile and supplied state, recall_preset transmits its
\* CC messages as one fixed ordered sequence: a recall of the state that
\* begins right after a completed recall of the same state on the same
\* device iterates over the same CC numbers and values in the order in
\* which the completed recall transmitted them.
C27_RecallOrderFixed ==
    [][\A t \in SequenceThreads :
          (/\ last.op = "recall_preset"
           /\ last.result = "Ok"
           /\ pc[t] = "idle"
           /\ pc'[t] = "recall"
           /\ loc'[t].pedal_type = last.pedal_type
           /\ loc'[t].dev = last.dev
           /\ loc'[t].state = last.arg)
          => loc'[t].cc_map
                = [i \in 1..Len(last.sent) |->
                      << last.sent[i][2], last.sent[i][3] >>]]_vars

\* C28: while a Microcosm save-to-bank choreography is between its Copy
\* trigger (CC 45, sent) and its Save trigger (CC 46, not yet sent), no step
\* of another command transmits a message to the device being saved.
C28_SaveChoreographyExclusive ==
    [][\A t \in SequenceThreads :
          (/\ pc[t] \in {"save_navigate", "save_commit"}
           /\ pc'[t] = pc[t]
           /\ loc'[t] = loc[t]
           /\ last' # last)
          => ~(last'.dev = loc[t].dev /\ last'.sent # << >>)]_vars

\* C30: whenever a Microcosm save-to-bank call has transmitted anything, its
\* bank_number lies in the configured bank range of the pedal and its
\* Program Change byte is bank_number - 1, computed without underflow and
\* within 0..127: a bank_number outside the range (0 included) is rejected
\* before any MIDI message is transmitted.
C30_SaveProgramInRange ==
    \A t \in SequenceThreads :
        (/\ loc[t].op = "save_preset_to_bank"
         /\ loc[t].pedal_type = "Microcosm"
         /\ loc[t].sent # << >>)
        => LET config == get_bank_config("Microcosm")[1]
           IN  /\ loc[t].bank_number >= config.program_change_start
               /\ loc[t].bank_number <= config.program_change_end
               /\ loc[t].midi_program = loc[t].bank_number - 1
               /\ loc[t].midi_program \in 0..127

\* C29: save_preset_to_bank changes the stored bank assignments only in its
\* final step, after every MIDI step of the sequence of that pedal has
\* succeeded (Microcosm: Copy trigger, Program Change, Save trigger;
\* Chroma Console: Program Change and the whole recall), and a call that
\* returns an error (a failed MIDI step, NotConnected, an unsupported pedal
\* type) leaves them unchanged.
C29_AssignOnlyAfterMidiSucceeded ==
    [][/\ pedal_banks' # pedal_banks =>
             \E t \in SequenceThreads :
                LET l == loc[t]
                IN  /\ pc[t] = "save_assign"
                    /\ pc'[t] = "idle"
                    /\ last'.op = "save_preset_to_bank"
                    /\ last'.result = "Ok"
                    /\ last'.sent = l.sent
                    /\ l.pedal_type = "Microcosm" =>
                          /\ Len(l.sent) = 3
                          /\ Len(l.sent[1]) = 3 /\ l.sent[1][2] = 45
                          /\ Len(l.sent[2]) = 2
                          /\ l.sent[2][2] = l.midi_program
                          /\ Len(l.sent[3]) = 3 /\ l.sent[3][2] = 46
                    /\ l.pedal_type = "ChromaConsole" =>
                          /\ Len(l.sent) = 1 + Cardinality(state_as_cc_map(
                                 "ChromaConsole",
                                 Presets[l.preset_id].parameters))
                          /\ Len(l.sent[1]) = 2
                          /\ l.sent[1][2] = l.bank_number
                    /\ l.pedal_type \in {"Microcosm", "ChromaConsole"}
       /\ (last'.op = "save_preset_to_bank" /\ last'.result # "Ok") =>
             pedal_banks' = pedal_banks]_vars

\* A slot is assigned, and a later save has failed after its first message
\* went out.
C29_Witness ==
    /\ pedal_banks # {}
    /\ last.op = "save_preset_to_bank"
    /\ last.result = "SendFailed"
    /\ last.sent # << >>

====
